---------------------------- MODULE Spec2Model ----------------------------
(***************************************************************************)
(* Model of the simulation core of super_snake: internal/game/game.go       *)
(* (the Game session, the snakes, the food spawner, the enemy AI, the       *)
(* movement and collision engine) and internal/game/astar.go (findPath).    *)
(*                                                                         *)
(* Units.  Time is counted in milliseconds.  SpeedFactor is counted in      *)
(* tenths (10 = 1.0, 15 = 1.5, 6 = 0.6).  MoveProgress is counted in        *)
(* 1/10000 of a grid cell, so that                                          *)
(*    moveAmount = SpeedFactor * g.Speed * deltaTime                        *)
(* is the exact integer SpeedFactor10 * Speed * deltaTimeMs and one cell    *)
(* is OneCell = 10000.  Floating point rounding is not modelled.            *)
(***************************************************************************)
EXTENDS Integers, Sequences, FiniteSets, TLC

VARIABLES
    PlayerSnake,         \* Game.PlayerSnake (a snake record)
    EnemySnakes,         \* Game.EnemySnakes (sequence of snake records)
    FoodItems,           \* Game.FoodItems (sequence of food records)
    Score,               \* Game.Score
    IsOver,              \* Game.IsOver
    IsPaused,            \* Game.IsPaused
    nextFoodSpawnTime,   \* Game.nextFoodSpawnTime
    nextEnemySpawnTime,  \* Game.nextEnemySpawnTime
    FoodEatenPos,        \* Game.FoodEatenPos (NoPos for nil)
    FoodEatenTime,       \* Game.FoodEatenTime
    EnemyFoodEatenPos,   \* Game.EnemyFoodEatenPos (NoPos for nil)
    now,                 \* the wall clock read by time.Now()
    crashed,             \* TRUE once a call has ended in a run-time panic
    frames,              \* Update calls made in this run (bounded)
    pausedAt,            \* the time of the TogglePause call that paused the game
    log                  \* the last call or step of the runtime: its name and events

vars == <<PlayerSnake, EnemySnakes, FoodItems, Score, IsOver, IsPaused,
          nextFoodSpawnTime, nextEnemySpawnTime, FoodEatenPos, FoodEatenTime,
          EnemyFoodEatenPos, now, crashed, frames, pausedAt, log>>

---------------------------------------------------------------------------
(* Bounds of the model.  The grid and the food cap are the program's       *)
(* GridWidth = 40, GridHeight = 30 and MaxTotalFoodItems = 50 scaled down. *)

GridWidth == 12
GridHeight == 3
MaxTotalFoodItems == 3
MaxFrames == 3
MaxResetFrames == 1
MaxAiFrames == 4
MaxTime == 15001
MaxSpawnTime == 30002

(* Program constants. *)
InitialSpeed == 8
InitialSnakeLen == 3
InitialFoodItems == 3
NumEnemySnakes == 2
MaxEnemySnakes == 3
FoodSpawnInterval == 5000
EnemySpawnInterval == 15000
foodFlashDuration == 150
OneCell == 10000

(* The nil pointer of a *Position and of an aStarNode parent. *)
NoPos == [X |-> 0 - 1, Y |-> 0 - 1]
ZeroTime == 0 - 1

DirNone == "DirNone"
DirUp == "DirUp"
DirDown == "DirDown"
DirLeft == "DirLeft"
DirRight == "DirRight"
Direction == {DirNone, DirUp, DirDown, DirLeft, DirRight}

FoodTypeStandard == "Standard"
FoodTypeSpeedUp == "SpeedUp"
FoodTypeSlowDown == "SlowDown"

---------------------------------------------------------------------------
(* Grid and geometry *)

Pos(x, y) == [X |-> x, Y |-> y]

Abs(n) == IF n < 0 THEN 0 - n ELSE n

heuristic(a, b) == Abs(a.X - b.X) + Abs(a.Y - b.Y)

isValid(pos, width, height) ==
    pos.X >= 0 /\ pos.X < width /\ pos.Y >= 0 /\ pos.Y < height

(* The head shifted by one cell in a direction (the switch of               *)
(* updateSnakeProgress, updateEnemyAI and setRandomEnemyDirection).         *)
Shift(p, dir) ==
    CASE dir = DirUp    -> Pos(p.X, p.Y - 1)
      [] dir = DirDown  -> Pos(p.X, p.Y + 1)
      [] dir = DirLeft  -> Pos(p.X - 1, p.Y)
      [] dir = DirRight -> Pos(p.X + 1, p.Y)
      [] OTHER          -> p

directionFromTo(from, to) ==
    IF to.Y < from.Y THEN DirUp
    ELSE IF to.Y > from.Y THEN DirDown
    ELSE IF to.X < from.X THEN DirLeft
    ELSE IF to.X > from.X THEN DirRight
    ELSE DirNone

IsReverse(dir, cur) ==
    \/ dir = DirUp /\ cur = DirDown
    \/ dir = DirDown /\ cur = DirUp
    \/ dir = DirLeft /\ cur = DirRight
    \/ dir = DirRight /\ cur = DirLeft

Range(s) == {s[i] : i \in 1..Len(s)}

---------------------------------------------------------------------------
(* A* pathfinding (astar.go).  The open set is the heap array of            *)
(* container/heap, a sequence of positions indexed from 0; a node is the    *)
(* entry of nodeMap for its position.                                       *)

(* A faulty Less: the queue is a max-heap on the f-cost. *)
Less_MaxHeap(pq, nodes, i, j) ==
    nodes[pq[i + 1]].f > nodes[pq[j + 1]].f

Less(pq, nodes, i, j) ==
    LET a == nodes[pq[i + 1]]
        b == nodes[pq[j + 1]]
    IN IF a.f = b.f THEN a.h < b.h ELSE a.f < b.f

Swap(pq, i, j) == [pq EXCEPT ![i + 1] = pq[j + 1], ![j + 1] = pq[i + 1]]

RECURSIVE heapUp(_, _, _)
heapUp(pq, nodes, j) ==
    LET i == IF j = 0 THEN 0 ELSE (j - 1) \div 2
    IN IF i = j \/ ~Less(pq, nodes, j, i)
       THEN pq
       ELSE heapUp(Swap(pq, i, j), nodes, i)

RECURSIVE heapDown(_, _, _, _)
heapDown(pq, nodes, i, n) ==
    LET j1 == 2 * i + 1
    IN IF j1 >= n
       THEN [pq |-> pq, i |-> i]
       ELSE LET j == IF j1 + 1 < n /\ Less(pq, nodes, j1 + 1, j1)
                     THEN j1 + 1 ELSE j1
            IN IF ~Less(pq, nodes, j, i)
               THEN [pq |-> pq, i |-> i]
               ELSE heapDown(Swap(pq, i, j), nodes, j, n)

heapPush(pq, nodes, p) == heapUp(Append(pq, p), nodes, Len(pq))

heapPop(pq, nodes) ==
    LET n == Len(pq) - 1
        d == heapDown(Swap(pq, 0, n), nodes, 0, n).pq
    IN [item |-> d[n + 1], pq |-> SubSeq(d, 1, n)]

heapFix(pq, nodes, i) ==
    LET d == heapDown(pq, nodes, i, Len(pq))
    IN IF d.i > i THEN d.pq ELSE heapUp(pq, nodes, i)

IndexOf(pq, p) == (CHOOSE k \in 1..Len(pq) : pq[k] = p) - 1

neighbors == <<Pos(0, 0 - 1), Pos(0, 1), Pos(0 - 1, 0), Pos(1, 0)>>

(* One pass of the neighbour loop body of findPath for offset k. *)
visitNeighbor(st, cur, k, target, width, height, obstacles) ==
    LET np == Pos(cur.X + neighbors[k].X, cur.Y + neighbors[k].Y)
        tentativeG == st.nodes[cur].g + 1
    IN IF ~isValid(np, width, height) \/ np \in obstacles \/ np \in st.closed
       THEN st
       ELSE IF np \notin DOMAIN st.nodes
            THEN LET fresh == [g |-> 0, h |-> 0, f |-> 0, parent |-> cur]
                     n0 == (np :> fresh) @@ st.nodes
                     pq0 == heapPush(st.open, n0, np)
                     hh == heuristic(np, target)
                     n1 == [n0 EXCEPT ![np] = [g |-> tentativeG, h |-> hh,
                                               f |-> tentativeG + hh,
                                               parent |-> cur]]
                 IN [st EXCEPT !.nodes = n1,
                               !.open = heapFix(pq0, n1, IndexOf(pq0, np))]
            ELSE IF tentativeG < st.nodes[np].g
                 THEN LET hh == heuristic(np, target)
                          n1 == [st.nodes EXCEPT ![np] =
                                    [g |-> tentativeG, h |-> hh,
                                     f |-> tentativeG + hh, parent |-> cur]]
                      IN [st EXCEPT !.nodes = n1,
                                    !.open = heapFix(st.open, n1,
                                                     IndexOf(st.open, np))]
                 ELSE st

(* The loop over the four neighbour offsets, in the order of the code. *)
RECURSIVE visitNeighbors(_, _, _, _, _, _, _)
visitNeighbors(st, cur, k, target, width, height, obstacles) ==
    IF k > Len(neighbors)
    THEN st
    ELSE visitNeighbors(visitNeighbor(st, cur, k, target, width, height, obstacles),
                        cur, k + 1, target, width, height, obstacles)

(* A faulty reconstructPath: the path is not reversed into travel order. *)
RECURSIVE reconstructPath_NotReversed(_, _)
reconstructPath_NotReversed(nodes, p) ==
    IF nodes[p].parent = NoPos
    THEN <<>>
    ELSE <<p>> \o reconstructPath_NotReversed(nodes, nodes[p].parent)

RECURSIVE reconstructPath(_, _)
reconstructPath(nodes, p) ==
    IF nodes[p].parent = NoPos
    THEN <<>>
    ELSE Append(reconstructPath(nodes, nodes[p].parent), p)

(* A faulty not-found result: an empty slice instead of nil. *)
NilPath_EmptySlice == [nil |-> FALSE, path |-> <<>>]

(* The result of findPath: nil, or a (possibly empty) slice of positions. *)
NilPath == [nil |-> TRUE, path |-> <<>>]

RECURSIVE searchLoop(_, _, _, _, _)
searchLoop(st, target, width, height, obstacles) ==
    IF Len(st.open) = 0
    THEN NilPath
    ELSE LET popped == heapPop(st.open, st.nodes)
             cur == popped.item
         IN IF cur = target
            THEN [nil |-> FALSE, path |-> reconstructPath(st.nodes, cur)]
            ELSE searchLoop(
                   visitNeighbors([st EXCEPT !.open = popped.pq,
                                             !.closed = st.closed \cup {cur}],
                                  cur, 1, target, width, height, obstacles),
                   target, width, height, obstacles)

(* findPath: the record [nil, path]; callers test len(path) > 0, which is   *)
(* false for nil and for the empty slice.                                   *)
findPath(start, target, width, height, obstacles) ==
    LET hh == heuristic(start, target)
        startNode == [g |-> 0, h |-> hh, f |-> hh, parent |-> NoPos]
        nodes0 == (start :> startNode)
    IN searchLoop([open |-> <<start>>, nodes |-> nodes0, closed |-> {}],
                  target, width, height, obstacles)

---------------------------------------------------------------------------
(* Inputs of the model: the values the random source and the callers may   *)
(* supply.  Each is a subset of what rand.Intn / rand.Float64 can return.  *)

(* A draw of spawnFoodItem: the cell of the successful rand.Intn pair and   *)
(* the food type selected by the roll r; for the items of Reset, and for    *)
(* the items spawned during the game.                                       *)
ResetFoodDraws ==
    { [Pos |-> Pos(4, 1), Type |-> FoodTypeSpeedUp],
      [Pos |-> Pos(8, 1), Type |-> FoodTypeSlowDown],
      [Pos |-> Pos(8, 0), Type |-> FoodTypeStandard] }

SpawnFoodDraws ==
    ResetFoodDraws \cup { [Pos |-> Pos(6, 1), Type |-> FoodTypeSlowDown] }

(* Rows rand.Intn(GridHeight) may return in the attempts of one createEnemy *)
(* call: for the enemies of Reset, and for the enemy of a timed spawn,      *)
(* whose attempts visit every row or only the middle one.                   *)
ResetEnemyRows == {1, 2}
SpawnEnemyRows == {{0, 1, 2}, {1}}

(* deltaTime arguments of Update, in milliseconds. *)
DeltaTimes == {125, 250}

(* Amounts by which the wall clock advances between calls. *)
TickSteps == {15001}

---------------------------------------------------------------------------
(* Entity model *)

PlayerId == 0

(* A *time.Timer: set = FALSE is the nil pointer; armed = TRUE while the    *)
(* runtime will still fire it at its deadline.                              *)
NoTimer == [set |-> FALSE, armed |-> FALSE, deadline |-> ZeroTime]

NewSnake(id, body, dir, isPlayer) ==
    [ id |-> id,
      Body |-> body,
      PrevBody |-> body,
      Direction |-> dir,
      NextDir |-> dir,
      SpeedFactor |-> 10,
      SpeedTimer |-> NoTimer,
      SpeedEffectEndTime |-> ZeroTime,
      IsPlayer |-> isPlayer,
      MoveProgress |-> 0,
      currentPath |-> <<>>,
      \* timers created for this snake that its SpeedTimer field no longer
      \* references but that are still armed (their deadlines), and the
      \* number of expired timers whose callback has not run yet
      orphanTimers |-> {},
      callbacks |-> 0 ]

EnemyIds(g) == {g.EnemySnakes[i].id : i \in 1..Len(g.EnemySnakes)}

EnemyIndex(g, id) == CHOOSE i \in 1..Len(g.EnemySnakes) : g.EnemySnakes[i].id = id

GetSnake(g, id) ==
    IF id = PlayerId THEN g.PlayerSnake ELSE g.EnemySnakes[EnemyIndex(g, id)]

SetSnake(g, id, s) ==
    IF id = PlayerId
    THEN [g EXCEPT !.PlayerSnake = s]
    ELSE [g EXCEPT !.EnemySnakes[EnemyIndex(g, id)] = s]

(* The part of the session an event records. *)
Snapshot(g) ==
    [ PlayerSnake |-> g.PlayerSnake, EnemySnakes |-> g.EnemySnakes,
      FoodItems |-> g.FoodItems, Score |-> g.Score, IsOver |-> g.IsOver,
      nextFoodSpawnTime |-> g.nextFoodSpawnTime,
      nextEnemySpawnTime |-> g.nextEnemySpawnTime ]

(* Events of a call, in order; each records the snake the operation was     *)
(* applied to (as the operation left it, before any removal) and the        *)
(* session before and after the operation.                                  *)
Emit(g0, g, kind, id, s) ==
    [g EXCEPT !.events = Append(@, [kind |-> kind, id |-> id, snake |-> s,
                                    pre |-> Snapshot(g0),
                                    post |-> Snapshot(g)])]

---------------------------------------------------------------------------
(* Food spawner *)

SnakeCells(g) ==
    Range(g.PlayerSnake.Body) \cup
    UNION {Range(g.EnemySnakes[i].Body) : i \in 1..Len(g.EnemySnakes)}

FoodCells(g) == {g.FoodItems[i].Pos : i \in 1..Len(g.FoodItems)}

NewFood(pos, type) ==
    [ Pos |-> pos,
      Type |-> type,
      Points |-> CASE type = FoodTypeStandard -> 10
                   [] type = FoodTypeSpeedUp  -> 15
                   [] type = FoodTypeSlowDown -> 5,
      Duration |-> IF type = FoodTypeStandard THEN 0 ELSE 7000 ]

(* A faulty spawnFoodItem: the cells of the snakes are not counted as      *)
(* occupied.                                                                *)
spawnFoodItem_IgnoresSnakes(g, draws) ==
    IF Len(g.FoodItems) >= MaxTotalFoodItems
    THEN {Emit(g, g, "spawnFoodAtCap", PlayerId, g.PlayerSnake)}
    ELSE LET occupied == FoodCells(g)
             maxAttempts == GridWidth * GridHeight - Cardinality(occupied)
             free == {d \in draws : d.Pos \notin occupied}
         IN IF maxAttempts <= 0 \/ free = {}
            THEN {Emit(g, g, "spawnFoodFailed", PlayerId, g.PlayerSnake)}
            ELSE { Emit(g, [g EXCEPT !.FoodItems = Append(@, NewFood(d.Pos, d.Type))],
                        "spawnFood", PlayerId, g.PlayerSnake) : d \in free }

(* A faulty spawnFoodItem: the test against MaxTotalFoodItems is missing. *)
spawnFoodItem_NoCap(g, draws) ==
    LET occupied == SnakeCells(g) \cup FoodCells(g)
        free == {d \in draws : d.Pos \notin occupied}
    IN IF GridWidth * GridHeight - Cardinality(occupied) <= 0 \/ free = {}
       THEN {Emit(g, g, "spawnFoodFailed", PlayerId, g.PlayerSnake)}
       ELSE { Emit(g, [g EXCEPT !.FoodItems = Append(@, NewFood(d.Pos, d.Type))],
                   "spawnFood", PlayerId, g.PlayerSnake) : d \in free }

(* spawnFoodItem: the set of sessions the call may leave.  The sampling     *)
(* loop ends on a free cell of the draws, or, when every draw is occupied,  *)
(* on an occupied cell (the spawn silently fails).                          *)
spawnFoodItem(g, draws) ==
    IF Len(g.FoodItems) >= MaxTotalFoodItems
    THEN {Emit(g, g, "spawnFoodAtCap", PlayerId, g.PlayerSnake)}
    ELSE LET occupied == SnakeCells(g) \cup FoodCells(g)
             maxAttempts == GridWidth * GridHeight - Cardinality(occupied)
             free == {d \in draws : d.Pos \notin occupied}
         IN IF maxAttempts <= 0 \/ free = {}
            THEN {Emit(g, g, "spawnFoodFailed", PlayerId, g.PlayerSnake)}
            ELSE { Emit(g, [g EXCEPT !.FoodItems = Append(@, NewFood(d.Pos, d.Type))],
                        "spawnFood", PlayerId, g.PlayerSnake) : d \in free }

scheduleNextFoodSpawn(g) ==
    [g EXCEPT !.nextFoodSpawnTime = now + FoodSpawnInterval]

scheduleNextEnemySpawn(g) ==
    [g EXCEPT !.nextEnemySpawnTime = now + EnemySpawnInterval]

---------------------------------------------------------------------------
(* Session construction *)

FreshEnemyId(g) == CHOOSE k \in 1..(MaxEnemySnakes + 1) :
                      /\ k \notin EnemyIds(g)
                      /\ \A j \in 1..(k - 1) : j \in EnemyIds(g)

EnemyBody(startX, startY) ==
    [i \in 1..InitialSnakeLen |-> Pos(startX + (i - 1), startY)]

(* A faulty createEnemy: a placement is accepted when it is in bounds,      *)
(* whatever it overlaps.                                                    *)
createEnemy_IgnoresOccupied(g, occupied, rows) ==
    { NewSnake(FreshEnemyId(g), EnemyBody(startX, startY), DirLeft, FALSE) :
        <<startX, startY>> \in
          { c \in { <<GridWidth - (GridWidth \div 4) + r, y>> :
                      r \in 0..((GridWidth \div 4) - 1), y \in rows } :
              \A i \in 1..InitialSnakeLen :
                 isValid(Pos(c[1] + (i - 1), c[2]), GridWidth, GridHeight) } }

(* createEnemy: the snakes the placement loop may return; the empty set     *)
(* stands for the nil result (no attempt found a valid placement).          *)
createEnemy(g, occupied, rows) ==
    { NewSnake(FreshEnemyId(g), EnemyBody(startX, startY), DirLeft, FALSE) :
        <<startX, startY>> \in
          { c \in { <<GridWidth - (GridWidth \div 4) + r, y>> :
                      r \in 0..((GridWidth \div 4) - 1), y \in rows } :
              \A i \in 1..InitialSnakeLen :
                 LET pos == Pos(c[1] + (i - 1), c[2])
                 IN pos \notin occupied /\ isValid(pos, GridWidth, GridHeight) } }

RECURSIVE resetEnemies(_, _, _)
resetEnemies(g, occupied, n) ==
    IF n = 0
    THEN {g}
    ELSE LET made == createEnemy(g, occupied, ResetEnemyRows)
         IN IF made = {}
            THEN resetEnemies(g, occupied, n - 1)
            ELSE UNION { resetEnemies([g EXCEPT !.EnemySnakes = Append(@, e)],
                                      occupied \cup Range(e.Body), n - 1)
                         : e \in made }

RECURSIVE spawnInitialFood(_, _)
spawnInitialFood(gs, n) ==
    IF n = 0
    THEN gs
    ELSE spawnInitialFood(UNION {spawnFoodItem(g, ResetFoodDraws) : g \in gs},
                          n - 1)

PlayerStartBody ==
    [i \in 1..InitialSnakeLen |->
        Pos((GridWidth \div 4) - (i - 1), GridHeight \div 2)]

(* A faulty Reset: the player snake is not rebuilt. *)
Reset_KeepsPlayer(g) ==
    LET g0 == [g EXCEPT !.EnemySnakes = <<>>]
        withEnemies == resetEnemies(g0, Range(PlayerStartBody), NumEnemySnakes)
        cleared == { [g1 EXCEPT !.Score = 0, !.IsOver = FALSE, !.IsPaused = FALSE,
                                !.FoodItems = <<>>, !.FoodEatenPos = NoPos,
                                !.FoodEatenTime = ZeroTime,
                                !.EnemyFoodEatenPos = NoPos] : g1 \in withEnemies }
    IN { scheduleNextEnemySpawn(scheduleNextFoodSpawn(g2)) :
            g2 \in spawnInitialFood(cleared, InitialFoodItems) }

(* Reset: the sessions the call may leave, from any session g. *)
Reset(g) ==
    LET player == NewSnake(PlayerId, PlayerStartBody, DirRight, TRUE)
        g0 == [g EXCEPT !.PlayerSnake = player, !.EnemySnakes = <<>>]
        withEnemies == resetEnemies(g0, Range(PlayerStartBody), NumEnemySnakes)
        cleared == { [g1 EXCEPT !.Score = 0, !.IsOver = FALSE, !.IsPaused = FALSE,
                                !.FoodItems = <<>>, !.FoodEatenPos = NoPos,
                                !.FoodEatenTime = ZeroTime,
                                !.EnemyFoodEatenPos = NoPos] : g1 \in withEnemies }
    IN { scheduleNextEnemySpawn(scheduleNextFoodSpawn(g2)) :
            g2 \in spawnInitialFood(cleared, InitialFoodItems) }

---------------------------------------------------------------------------
(* Snake logic *)

Speed == InitialSpeed

Last(q) == q[Len(q)]

(* A faulty grow: the tail of PrevBody is not duplicated. *)
grow_BodyOnly(s) ==
    IF Len(s.Body) = 0
    THEN s
    ELSE [s EXCEPT !.Body = Append(@, Last(s.Body))]

grow(s) ==
    IF Len(s.Body) = 0
    THEN s
    ELSE [s EXCEPT !.Body = Append(@, Last(s.Body)),
                   !.PrevBody = IF Len(s.PrevBody) > 0
                                THEN Append(@, Last(s.PrevBody))
                                ELSE Append(@, Last(s.Body))]

(* time.Timer.Stop: a timer that has not fired yet will not fire. *)
StopTimer(t) == IF t.set THEN [t EXCEPT !.armed = FALSE] ELSE t

(* applySpeedBoost: the timer the field referenced is stopped and dropped   *)
(* (a stopped timer no field references can never fire); callbacks of       *)
(* timers that had already expired stay pending.                            *)
applySpeedBoost(s, factor, duration) ==
    [s EXCEPT !.SpeedFactor = factor,
              !.SpeedEffectEndTime = now + duration,
              !.SpeedTimer = [set |-> TRUE, armed |-> TRUE,
                              deadline |-> now + duration]]

(* A faulty Effect: the speed boost is given to the player only. *)
Effect_BoostsPlayerOnly(food, s) ==
    IF ~s.IsPlayer
    THEN grow(s)
    ELSE CASE food.Type = FoodTypeStandard -> grow(s)
           [] food.Type = FoodTypeSpeedUp  -> applySpeedBoost(grow(s), 15, food.Duration)
           [] food.Type = FoodTypeSlowDown -> applySpeedBoost(grow(s), 6, food.Duration)

(* A faulty Effect: the snake does not grow. *)
Effect_NoGrow(food, s) ==
    CASE food.Type = FoodTypeStandard -> s
      [] food.Type = FoodTypeSpeedUp  -> applySpeedBoost(s, 15, food.Duration)
      [] food.Type = FoodTypeSlowDown -> applySpeedBoost(s, 6, food.Duration)

(* Food.Effect, the closure spawnFoodItem stores for each food type. *)
Effect(food, s) ==
    CASE food.Type = FoodTypeStandard -> grow(s)
      [] food.Type = FoodTypeSpeedUp  -> applySpeedBoost(grow(s), 15, food.Duration)
      [] food.Type = FoodTypeSlowDown -> applySpeedBoost(grow(s), 6, food.Duration)

(* A faulty wall check: it never reports a collision. *)
hitWall_Never(s, width, height) == FALSE

hitWall(s, width, height) ==
    LET head == s.Body[1]
    IN head.X < 0 \/ head.X >= width \/ head.Y < 0 \/ head.Y >= height

(* A faulty self check: it never reports a collision. *)
hitSelf_Never(s, width, height) == FALSE

hitSelf(s, width, height) ==
    /\ ~hitWall(s, width, height)
    /\ \E i \in 2..Len(s.Body) : s.Body[1] = s.Body[i]

(* checkCollision returns (hitWall, hitSelf); this is their disjunction. *)
checkCollision(s, width, height) ==
    Len(s.Body) > 0 /\ (hitWall(s, width, height) \/ hitSelf(s, width, height))

(* A faulty removal: the elements after the removed one are dropped too. *)
removeEnemySnake_Truncate(g, id) ==
    [g EXCEPT !.EnemySnakes =
        IF id \in EnemyIds(g) THEN SubSeq(@, 1, EnemyIndex(g, id) - 1) ELSE @]

removeEnemySnake(g, id) ==
    [g EXCEPT !.EnemySnakes = SelectSeq(@, LAMBDA e : e.id # id)]

triggerGameOver(g) ==
    [g EXCEPT !.IsOver = TRUE,
              !.PlayerSnake.SpeedTimer = StopTimer(@)]

isSnakeAlive(g, id) == id = PlayerId \/ id \in EnemyIds(g)

(* A faulty rule for an enemy against the player: running into the player  *)
(* behind its head ends the game as well.                                   *)
checkAgainstPlayer_BodyHitEndsGame(g, s) ==
    IF ~s.IsPlayer /\ Len(g.PlayerSnake.Body) > 0
    THEN IF \E i \in 1..Len(g.PlayerSnake.Body) : s.Body[1] = g.PlayerSnake.Body[i]
         THEN [g |-> removeEnemySnake(triggerGameOver(g), s.id), hit |-> TRUE]
         ELSE [g |-> g, hit |-> FALSE]
    ELSE [g |-> g, hit |-> FALSE]

(* checkInterSnakeCollisions, first part: an enemy s against the player.    *)
(* Result: [g, hit].                                                        *)
checkAgainstPlayer(g, s) ==
    IF ~s.IsPlayer /\ Len(g.PlayerSnake.Body) > 0
    THEN IF s.Body[1] = g.PlayerSnake.Body[1]
         THEN [g |-> removeEnemySnake(triggerGameOver(g), s.id), hit |-> TRUE]
         ELSE IF \E i \in 2..Len(g.PlayerSnake.Body) :
                     s.Body[1] = g.PlayerSnake.Body[i]
              THEN [g |-> removeEnemySnake(g, s.id), hit |-> TRUE]
              ELSE [g |-> g, hit |-> FALSE]
    ELSE [g |-> g, hit |-> FALSE]

(* Faulty collision rules for the element `other`: a head-on collision of   *)
(* two enemies removes only the moving one; and the player running into an  *)
(* enemy behind its head removes that enemy.                                *)
checkAgainstEnemy_MoverOnly(g, s, other) ==
    IF s.id = other.id \/ Len(other.Body) = 0
    THEN [g |-> g, hit |-> FALSE]
    ELSE IF s.Body[1] = other.Body[1]
         THEN IF s.IsPlayer
              THEN [g |-> removeEnemySnake(triggerGameOver(g), other.id),
                    hit |-> TRUE]
              ELSE [g |-> removeEnemySnake(g, s.id), hit |-> TRUE]
         ELSE IF \E i \in 2..Len(other.Body) : s.Body[1] = other.Body[i]
              THEN IF s.IsPlayer
                   THEN [g |-> triggerGameOver(g), hit |-> TRUE]
                   ELSE [g |-> removeEnemySnake(g, s.id), hit |-> TRUE]
              ELSE [g |-> g, hit |-> FALSE]

checkAgainstEnemy_BodyHitRemoves(g, s, other) ==
    IF s.id = other.id \/ Len(other.Body) = 0
    THEN [g |-> g, hit |-> FALSE]
    ELSE IF s.Body[1] = other.Body[1]
         THEN IF s.IsPlayer
              THEN [g |-> removeEnemySnake(triggerGameOver(g), other.id),
                    hit |-> TRUE]
              ELSE [g |-> removeEnemySnake(removeEnemySnake(g, s.id), other.id),
                    hit |-> TRUE]
         ELSE IF \E i \in 2..Len(other.Body) : s.Body[1] = other.Body[i]
              THEN IF s.IsPlayer
                   THEN [g |-> removeEnemySnake(triggerGameOver(g), other.id),
                         hit |-> TRUE]
                   ELSE [g |-> removeEnemySnake(g, s.id), hit |-> TRUE]
              ELSE [g |-> g, hit |-> FALSE]

(* One pass of the loop over g.EnemySnakes for the element `other`. *)
checkAgainstEnemy(g, s, other) ==
    IF s.id = other.id \/ Len(other.Body) = 0
    THEN [g |-> g, hit |-> FALSE]
    ELSE IF s.Body[1] = other.Body[1]
         THEN IF s.IsPlayer
              THEN [g |-> removeEnemySnake(triggerGameOver(g), other.id),
                    hit |-> TRUE]
              ELSE [g |-> removeEnemySnake(removeEnemySnake(g, s.id), other.id),
                    hit |-> TRUE]
         ELSE IF \E i \in 2..Len(other.Body) : s.Body[1] = other.Body[i]
              THEN IF s.IsPlayer
                   THEN [g |-> triggerGameOver(g), hit |-> TRUE]
                   ELSE [g |-> removeEnemySnake(g, s.id), hit |-> TRUE]
              ELSE [g |-> g, hit |-> FALSE]

(* The range loop: elements are visited in collection order and the first   *)
(* one that reports a collision ends the function.                          *)
RECURSIVE checkAgainstEnemies(_, _, _)
checkAgainstEnemies(g, s, k) ==
    IF k > Len(g.EnemySnakes)
    THEN [g |-> g, hit |-> FALSE]
    ELSE LET r == checkAgainstEnemy(g, s, g.EnemySnakes[k])
         IN IF r.hit THEN r ELSE checkAgainstEnemies(g, s, k + 1)

checkInterSnakeCollisions(g, s) ==
    IF Len(s.Body) = 0
    THEN [g |-> g, hit |-> FALSE]
    ELSE LET r == checkAgainstPlayer(g, s)
         IN IF r.hit THEN r ELSE checkAgainstEnemies(g, s, 1)

---------------------------------------------------------------------------
(* Enemy AI controller *)

Min(S) == CHOOSE m \in S : \A n \in S : m <= n

(* A faulty findClosestFood: of the nearest items the last one is taken. *)
findClosestFood_LastNearest(g, pos) ==
    IF Len(g.FoodItems) = 0
    THEN 0
    ELSE LET dist(i) == heuristic(pos, g.FoodItems[i].Pos)
             minDist == Min({dist(i) : i \in 1..Len(g.FoodItems)})
             nearest == {i \in 1..Len(g.FoodItems) : dist(i) = minDist}
         IN CHOOSE i \in nearest : \A j \in nearest : i >= j

(* findClosestFood: index in FoodItems of the first nearest item, 0 if none *)
findClosestFood(g, pos) ==
    IF Len(g.FoodItems) = 0
    THEN 0
    ELSE LET dist(i) == heuristic(pos, g.FoodItems[i].Pos)
             minDist == Min({dist(i) : i \in 1..Len(g.FoodItems)})
         IN Min({i \in 1..Len(g.FoodItems) : dist(i) = minDist})

buildObstacleMap(g, self) ==
    Range(g.PlayerSnake.Body)
    \cup UNION { Range(g.EnemySnakes[i].Body) :
                   i \in {j \in 1..Len(g.EnemySnakes) : g.EnemySnakes[j].id # self.id} }
    \cup {self.Body[i] : i \in 2..Len(self.Body)}

(* A faulty filter: a direction is kept whatever occupies its cell. *)
validDirs_IgnoresObstacles(g, s) ==
    { dir \in {DirUp, DirDown, DirLeft, DirRight} :
        /\ ~IsReverse(dir, s.Direction)
        /\ isValid(Shift(s.Body[1], dir), GridWidth, GridHeight) }

validDirs(g, s) ==
    { dir \in {DirUp, DirDown, DirLeft, DirRight} :
        /\ ~IsReverse(dir, s.Direction)
        /\ isValid(Shift(s.Body[1], dir), GridWidth, GridHeight)
        /\ Shift(s.Body[1], dir) \notin buildObstacleMap(g, s) }

(* A faulty random choice: the snake is turned at once, not only told to    *)
(* turn.                                                                    *)
setRandomEnemyDirection_TurnsSnake(g, s) ==
    IF validDirs(g, s) # {}
    THEN { [s EXCEPT !.NextDir = dir, !.Direction = dir, !.currentPath = <<>>]
           : dir \in validDirs(g, s) }
    ELSE { [s EXCEPT !.NextDir = s.Direction, !.currentPath = <<>>] }

(* setRandomEnemyDirection: the snakes rand.Intn may leave. *)
setRandomEnemyDirection(g, s) ==
    IF validDirs(g, s) # {}
    THEN { [s EXCEPT !.NextDir = dir, !.currentPath = <<>>] : dir \in validDirs(g, s) }
    ELSE { [s EXCEPT !.NextDir = s.Direction, !.currentPath = <<>>] }

(* The code after the label recalculate. *)
recalculate(g, s) ==
    LET head == s.Body[1]
        target == findClosestFood(g, head)
    IN IF target = 0
       THEN setRandomEnemyDirection(g, s)
       ELSE LET path == findPath(head, g.FoodItems[target].Pos, GridWidth,
                                 GridHeight, buildObstacleMap(g, s)).path
            IN IF Len(path) > 0
               THEN LET s1 == [s EXCEPT !.currentPath = path]
                        newDir == directionFromTo(head, path[1])
                    IN IF newDir # DirNone
                       THEN {[s1 EXCEPT !.NextDir = newDir]}
                       ELSE setRandomEnemyDirection(g, s1)
               ELSE setRandomEnemyDirection(g, s)

(* A faulty path following: the step toward the neck is not looked for. *)
followPath_NoNeckCheck(g, s) ==
    LET head == s.Body[1]
        s1 == IF s.currentPath[1] = head
              THEN [s EXCEPT !.currentPath = Tail(@)]
              ELSE s
    IN IF Len(s1.currentPath) = 0
       THEN recalculate(g, s1)
       ELSE LET newDir == directionFromTo(head, s1.currentPath[1])
            IN IF newDir # DirNone
               THEN {[s1 EXCEPT !.NextDir = newDir]}
               ELSE recalculate(g, s1)

(* The path-following part of updateEnemyAI for a non-empty path. *)
followPath(g, s) ==
    LET head == s.Body[1]
        s1 == IF s.currentPath[1] = head
              THEN [s EXCEPT !.currentPath = Tail(@)]
              ELSE s
    IN IF Len(s1.currentPath) = 0
       THEN recalculate(g, s1)
       ELSE LET newDir == directionFromTo(head, s1.currentPath[1])
            IN IF newDir # DirNone
               THEN IF Len(s1.Body) > 1 /\ Shift(head, newDir) = s1.Body[2]
                    THEN recalculate(g, [s1 EXCEPT !.currentPath = <<>>])
                    ELSE {[s1 EXCEPT !.NextDir = newDir]}
               ELSE recalculate(g, s1)

(* updateEnemyAI: the sessions the call may leave. *)
updateEnemyAI(g, id) ==
    LET s == GetSnake(g, id)
        decided == IF Len(s.Body) = 0 THEN {s}
                   ELSE IF Len(s.currentPath) > 0 THEN followPath(g, s)
                   ELSE recalculate(g, s)
    IN { Emit(g, SetSnake(g, id, s2), "ai", id, s2) : s2 \in decided }

---------------------------------------------------------------------------
(* Movement and collision engine *)

(* New body: the new head followed by the old body without its last         *)
(* segment (after grow() that last segment is the duplicated tail).         *)
moveBody(s, newHead) ==
    [s EXCEPT !.Body = <<newHead>> \o SubSeq(s.Body, 1, Len(s.Body) - 1)]

RemoveAt(q, i) == SubSeq(q, 1, i - 1) \o SubSeq(q, i + 1, Len(q))

(* A faulty eat branch: the points are scored whoever eats. *)
eatFood_EnemyScores(g, id, s, newHead, ateFoodIndex) ==
    LET food == g.FoodItems[ateFoodIndex]
        g1 == [g EXCEPT !.Score = @ + food.Points]
        g2 == SetSnake(g1, id, Effect(food, s))
    IN { LET g4 == IF s.IsPlayer
                   THEN [g3 EXCEPT !.FoodEatenPos = food.Pos,
                                   !.FoodEatenTime = now]
                   ELSE [g3 EXCEPT !.EnemyFoodEatenPos = food.Pos]
             g5 == SetSnake(g4, id, moveBody(GetSnake(g4, id), newHead))
         IN [g5 EXCEPT !.FoodItems = RemoveAt(@, ateFoodIndex)]
         : g3 \in spawnFoodItem(g2, SpawnFoodDraws) }

(* The food branch of a step: score, effect, replacement spawn, the eaten   *)
(* marker, the body update and the removal of the eaten item.               *)
eatFood(g, id, s, newHead, ateFoodIndex) ==
    LET food == g.FoodItems[ateFoodIndex]
        g1 == IF s.IsPlayer THEN [g EXCEPT !.Score = @ + food.Points] ELSE g
        g2 == SetSnake(g1, id, Effect(food, s))
    IN { LET g4 == IF s.IsPlayer
                   THEN [g3 EXCEPT !.FoodEatenPos = food.Pos,
                                   !.FoodEatenTime = now]
                   ELSE [g3 EXCEPT !.EnemyFoodEatenPos = food.Pos]
             g5 == SetSnake(g4, id, moveBody(GetSnake(g4, id), newHead))
         IN [g5 EXCEPT !.FoodItems = RemoveAt(@, ateFoodIndex)]
         : g3 \in spawnFoodItem(g2, SpawnFoodDraws) }

(* Step 2 of the loop body: wall and self collision, then the collisions    *)
(* with the other snakes.  Result: [g, stop].                               *)
resolveCollisions(g, id) ==
    LET s == GetSnake(g, id)
    IN IF checkCollision(s, GridWidth, GridHeight)
       THEN [g |-> IF s.IsPlayer THEN triggerGameOver(g)
                   ELSE removeEnemySnake(g, id),
             stop |-> TRUE]
       ELSE LET r == checkInterSnakeCollisions(g, s)
            IN [g |-> r.g,
                stop |-> r.hit /\ (r.g.IsOver \/ ~isSnakeAlive(r.g, id))]

(* One pass of the loop body of updateSnakeProgress: the set of [g, stop].  *)
finalizeStep(g, id) ==
    LET s0 == GetSnake(g, id)
        s1 == [s0 EXCEPT !.MoveProgress = @ - OneCell,
                         !.currentPath =
                             IF ~s0.IsPlayer /\ Len(@) > 0 /\ @[1] = s0.Body[1]
                             THEN Tail(@) ELSE @]
        s2 == [s1 EXCEPT !.PrevBody = s1.Body, !.Direction = s1.NextDir]
        newHead == Shift(s2.Body[1], s2.Direction)
        ate == {i \in 1..Len(g.FoodItems) : g.FoodItems[i].Pos = newHead}
        moved == IF ate = {}
                 THEN {SetSnake(g, id, moveBody(s2, newHead))}
                 ELSE eatFood(g, id, s2, newHead, Min(ate))
    IN { LET r == resolveCollisions(gm, id)
         IN [g |-> Emit(g, r.g, "step", id, GetSnake(gm, id)), stop |-> r.stop]
         : gm \in moved }

(* A faulty loop: a snake that is still there goes on stepping after a      *)
(* fatal step.                                                              *)
RECURSIVE stepLoop_IgnoresStop(_, _)
stepLoop_IgnoresStop(g, id) ==
    IF (id # PlayerId /\ ~isSnakeAlive(g, id))
         \/ GetSnake(g, id).MoveProgress < OneCell
    THEN {g}
    ELSE UNION { stepLoop_IgnoresStop(r.g, id) : r \in finalizeStep(g, id) }

RECURSIVE stepLoop(_, _)
stepLoop(g, id) ==
    IF GetSnake(g, id).MoveProgress < OneCell
    THEN {g}
    ELSE UNION { IF r.stop THEN {r.g} ELSE stepLoop(r.g, id)
                 : r \in finalizeStep(g, id) }

updateSnakeProgress(g, id, deltaTime) ==
    LET s == GetSnake(g, id)
    IN IF Len(s.Body) = 0
       THEN {g}
       ELSE stepLoop(SetSnake(g, id,
                [s EXCEPT !.MoveProgress = @ + s.SpeedFactor * Speed * deltaTime]),
                id)

---------------------------------------------------------------------------
(* Session controller *)

(* A faulty spawn: the size of the collection is not looked at. *)
spawnEnemyIfPossible_NoCap(g) ==
    UNION { LET made == createEnemy(g, SnakeCells(g) \cup FoodCells(g), rows)
            IN IF made = {}
               THEN {Emit(g, g, "spawnEnemyFailed", PlayerId, g.PlayerSnake)}
               ELSE { Emit(g, [g EXCEPT !.EnemySnakes = Append(@, e)],
                           "spawnEnemy", e.id, e) : e \in made }
            : rows \in SpawnEnemyRows }

spawnEnemyIfPossible(g) ==
    IF Len(g.EnemySnakes) < MaxEnemySnakes
    THEN UNION { LET made == createEnemy(g, SnakeCells(g) \cup FoodCells(g),
                                         rows)
                 IN IF made = {}
                    THEN {Emit(g, g, "spawnEnemyFailed", PlayerId,
                               g.PlayerSnake)}
                    ELSE { Emit(g, [g EXCEPT !.EnemySnakes = Append(@, e)],
                                "spawnEnemy", e.id, e) : e \in made }
                 : rows \in SpawnEnemyRows }
    ELSE {Emit(g, g, "spawnEnemyAtCap", PlayerId, g.PlayerSnake)}

(* A faulty enemy pass: the collection is walked from index 0 upwards. *)
RECURSIVE enemyPass_Forward(_, _, _)
enemyPass_Forward(g, i, deltaTime) ==
    IF i < 0 \/ Len(g.EnemySnakes) - i < 1
    THEN {g}
    ELSE LET id == g.EnemySnakes[Len(g.EnemySnakes) - i].id
         IN UNION { UNION { IF g2.IsOver THEN {g2}
                            ELSE enemyPass_Forward(g2, i - 1, deltaTime)
                            : g2 \in updateSnakeProgress(g1, id, deltaTime) }
                    : g1 \in updateEnemyAI(g, id) }

(* The enemy pass of Update: i runs from len(g.EnemySnakes)-1 down to 0 and *)
(* g.EnemySnakes[i] is read against the current length; an index out of     *)
(* range is a run-time panic, which ends the program.                       *)
RECURSIVE enemyPass(_, _, _)
enemyPass(g, i, deltaTime) ==
    IF i < 0
    THEN {g}
    ELSE IF i >= Len(g.EnemySnakes)
         THEN {Emit(g, [g EXCEPT !.crashed = TRUE], "panic", PlayerId, g.PlayerSnake)}
         ELSE LET id == g.EnemySnakes[i + 1].id
              IN UNION { UNION { IF g2.IsOver THEN {g2}
                                 ELSE enemyPass(g2, i - 1, deltaTime)
                                 : g2 \in updateSnakeProgress(g1, id, deltaTime) }
                         : g1 \in updateEnemyAI(g, id) }

(* A faulty timed spawn: the next spawn is scheduled only when an item was *)
(* placed.                                                                  *)
timedFoodSpawn_NoRescheduleOnFailure(g) ==
    IF now > g.nextFoodSpawnTime
    THEN { IF Len(g1.FoodItems) > Len(g.FoodItems)
           THEN scheduleNextFoodSpawn(g1) ELSE g1
           : g1 \in spawnFoodItem(g, SpawnFoodDraws) }
    ELSE {g}

timedFoodSpawn(g) ==
    IF now > g.nextFoodSpawnTime
    THEN {scheduleNextFoodSpawn(g1) : g1 \in spawnFoodItem(g, SpawnFoodDraws)}
    ELSE {g}

timedEnemySpawn(g) ==
    IF now > g.nextEnemySpawnTime
    THEN {scheduleNextEnemySpawn(g1) : g1 \in spawnEnemyIfPossible(g)}
    ELSE {g}

(* A faulty Update: the enemy pass runs although the player's update ended  *)
(* the game.                                                                *)
Update_EnemiesAfterGameOver(g, deltaTime) ==
    IF g.IsOver \/ g.IsPaused
    THEN {g}
    ELSE LET spawned == UNION {timedEnemySpawn(g1) : g1 \in timedFoodSpawn(g)}
             playerDone == UNION {updateSnakeProgress(g1, PlayerId, deltaTime)
                                  : g1 \in spawned}
         IN UNION { enemyPass(g1, Len(g1.EnemySnakes) - 1, deltaTime)
                    : g1 \in playerDone }

(* A faulty Update: the call is not skipped while the game is paused. *)
Update_IgnoresPause(g, deltaTime) ==
    IF g.IsOver
    THEN {g}
    ELSE LET spawned == UNION {timedEnemySpawn(g1) : g1 \in timedFoodSpawn(g)}
             playerDone == UNION {updateSnakeProgress(g1, PlayerId, deltaTime)
                                  : g1 \in spawned}
         IN UNION { IF g1.IsOver THEN {g1}
                    ELSE enemyPass(g1, Len(g1.EnemySnakes) - 1, deltaTime)
                    : g1 \in playerDone }

(* A faulty Update: the call is not skipped once the game is over. *)
Update_IgnoresGameOver(g, deltaTime) ==
    IF g.IsPaused
    THEN {g}
    ELSE LET spawned == UNION {timedEnemySpawn(g1) : g1 \in timedFoodSpawn(g)}
             playerDone == UNION {updateSnakeProgress(g1, PlayerId, deltaTime)
                                  : g1 \in spawned}
         IN UNION { IF g1.IsOver THEN {g1}
                    ELSE enemyPass(g1, Len(g1.EnemySnakes) - 1, deltaTime)
                    : g1 \in playerDone }

(* Update: the sessions the call may leave. *)
Update(g, deltaTime) ==
    IF g.IsOver \/ g.IsPaused
    THEN {g}
    ELSE LET spawned == UNION {timedEnemySpawn(g1) : g1 \in timedFoodSpawn(g)}
             playerDone == UNION {updateSnakeProgress(g1, PlayerId, deltaTime)
                                  : g1 \in spawned}
         IN UNION { IF g1.IsOver THEN {g1}
                    ELSE enemyPass(g1, Len(g1.EnemySnakes) - 1, deltaTime)
                    : g1 \in playerDone }

(* time.Timer.Reset(d): the timer is armed again, d from now. *)
ResetTimer(t, d) == [t EXCEPT !.armed = TRUE, !.deadline = now + d]

TogglePause(g) ==
    LET paused == ~g.IsPaused
        t == g.PlayerSnake.SpeedTimer
    IN IF paused
       THEN [g EXCEPT !.IsPaused = TRUE, !.PlayerSnake.SpeedTimer = StopTimer(t)]
       ELSE [g EXCEPT !.IsPaused = FALSE,
                      !.PlayerSnake.SpeedTimer =
                          IF t.set
                          THEN ResetTimer(t, 1000 \div
                                   ((Speed * g.PlayerSnake.SpeedFactor) \div 10))
                          ELSE t]

(* A faulty HandleInput: the reversal is tested against the pending        *)
(* NextDir, not against the Direction of the last step.                     *)
HandleInput_ChecksNextDir(g, newDir) ==
    IF IsReverse(newDir, g.PlayerSnake.NextDir)
    THEN g
    ELSE [g EXCEPT !.PlayerSnake.NextDir = newDir]

(* A faulty HandleInput: the reversal test is missing. *)
HandleInput_NoReversalRule(g, newDir) ==
    [g EXCEPT !.PlayerSnake.NextDir = newDir]

HandleInput(g, newDir) ==
    IF IsReverse(newDir, g.PlayerSnake.Direction)
    THEN g
    ELSE [g EXCEPT !.PlayerSnake.NextDir = newDir]

(* GetState: its effect on the session (the expiry of the eaten marker). *)
GetState(g) ==
    IF g.FoodEatenPos # NoPos /\ now - g.FoodEatenTime > foodFlashDuration
    THEN [g EXCEPT !.FoodEatenPos = NoPos]
    ELSE g

---------------------------------------------------------------------------
(* Speed-effect timers (time.AfterFunc): the runtime expires an armed timer *)
(* at or after its deadline and starts its callback, which runs later.      *)

expireTimer(s) ==
    [s EXCEPT !.SpeedTimer.armed = FALSE, !.callbacks = @ + 1]

expireOrphan(s, d) ==
    [s EXCEPT !.orphanTimers = @ \ {d}, !.callbacks = @ + 1]

(* The function applySpeedBoost passes to time.AfterFunc. *)
speedCallback(s) ==
    [s EXCEPT !.SpeedFactor = 10,
              !.SpeedTimer = NoTimer,
              !.SpeedEffectEndTime = ZeroTime,
              !.callbacks = @ - 1,
              !.orphanTimers = IF s.SpeedTimer.set /\ s.SpeedTimer.armed
                               THEN @ \cup {s.SpeedTimer.deadline} ELSE @]

---------------------------------------------------------------------------
(* The state machine *)

(* The session as one record, with the event list of the running call. *)
Game ==
    [ PlayerSnake |-> PlayerSnake, EnemySnakes |-> EnemySnakes,
      FoodItems |-> FoodItems, Score |-> Score, IsOver |-> IsOver,
      IsPaused |-> IsPaused, nextFoodSpawnTime |-> nextFoodSpawnTime,
      nextEnemySpawnTime |-> nextEnemySpawnTime, FoodEatenPos |-> FoodEatenPos,
      FoodEatenTime |-> FoodEatenTime, EnemyFoodEatenPos |-> EnemyFoodEatenPos,
      crashed |-> crashed, events |-> <<>> ]

(* The Game value NewGame builds before it calls Reset. *)
ZeroGame ==
    [ PlayerSnake |-> NewSnake(PlayerId, <<>>, DirNone, FALSE), EnemySnakes |-> <<>>,
      FoodItems |-> <<>>, Score |-> 0, IsOver |-> FALSE,
      IsPaused |-> FALSE, nextFoodSpawnTime |-> ZeroTime,
      nextEnemySpawnTime |-> ZeroTime, FoodEatenPos |-> NoPos,
      FoodEatenTime |-> ZeroTime, EnemyFoodEatenPos |-> NoPos,
      crashed |-> FALSE, events |-> <<>> ]

(* The record of a call or of a step of the runtime that has no events. *)
Called(name) == [call |-> name, events |-> <<>>]

Install(g) ==
    /\ PlayerSnake' = g.PlayerSnake
    /\ EnemySnakes' = g.EnemySnakes
    /\ FoodItems' = g.FoodItems
    /\ Score' = g.Score
    /\ IsOver' = g.IsOver
    /\ IsPaused' = g.IsPaused
    /\ nextFoodSpawnTime' = g.nextFoodSpawnTime
    /\ nextEnemySpawnTime' = g.nextEnemySpawnTime
    /\ FoodEatenPos' = g.FoodEatenPos
    /\ FoodEatenTime' = g.FoodEatenTime
    /\ EnemyFoodEatenPos' = g.EnemyFoodEatenPos
    /\ crashed' = g.crashed

(* The fields of the session. *)
session ==
    <<PlayerSnake, EnemySnakes, FoodItems, Score, IsOver, IsPaused,
      nextFoodSpawnTime, nextEnemySpawnTime, FoodEatenPos, FoodEatenTime,
      EnemyFoodEatenPos>>

Init ==
    /\ now = 0
    /\ frames = 0
    /\ pausedAt = ZeroTime
    /\ \E g \in Reset(ZeroGame) :
          /\ PlayerSnake = g.PlayerSnake
          /\ EnemySnakes = g.EnemySnakes
          /\ FoodItems = g.FoodItems
          /\ Score = g.Score
          /\ IsOver = g.IsOver
          /\ IsPaused = g.IsPaused
          /\ nextFoodSpawnTime = g.nextFoodSpawnTime
          /\ nextEnemySpawnTime = g.nextEnemySpawnTime
          /\ FoodEatenPos = g.FoodEatenPos
          /\ FoodEatenTime = g.FoodEatenTime
          /\ EnemyFoodEatenPos = g.EnemyFoodEatenPos
          /\ crashed = g.crashed
          /\ log = [call |-> "Reset", events |-> g.events,
                    from |-> [IsOver |-> FALSE, IsPaused |-> FALSE, Score |-> 0,
                              call |-> "NewGame"]]

(* A run is MaxFrames frames long.  Input, pause and draw are explored      *)
(* while the run lasts and the game is not over.  A restart is accepted in *)
(* every state of the game; it is explored in the first MaxResetFrames     *)
(* frames of a run (running or paused, also right after a Reset) and when  *)
(* the game is over, and it starts a new run.  Time passes while the run   *)
(* lasts, also when the game is over.  The record of a Reset call keeps    *)
(* what the call found (from).                                             *)
DoReset ==
    /\ ~crashed
    /\ frames < MaxFrames
    /\ IsOver \/ frames <= MaxResetFrames
    /\ \E g \in Reset(Game) :
          /\ Install(g)
          /\ log' = [call |-> "Reset", events |-> g.events,
                     from |-> [IsOver |-> IsOver, IsPaused |-> IsPaused,
                               Score |-> Score, call |-> log.call]]
    /\ frames' = 0
    /\ pausedAt' = ZeroTime
    /\ UNCHANGED now

DoUpdate ==
    /\ ~crashed
    /\ frames < MaxFrames \/ IsOver \/ IsPaused
    /\ \E deltaTime \in DeltaTimes :
          \E g \in Update(Game, deltaTime) :
             /\ Install(g)
             /\ log' = [call |-> "Update", start |-> Snapshot(Game),
                        end |-> Snapshot(g), events |-> g.events]
    /\ frames' = IF IsOver \/ IsPaused THEN frames ELSE frames + 1
    /\ UNCHANGED <<now, pausedAt>>

DoHandleInput ==
    /\ ~crashed
    /\ frames < MaxFrames /\ ~IsOver
    /\ \E newDir \in Direction :
          /\ Install(HandleInput(Game, newDir))
          /\ log' = [call |-> "HandleInput", newDir |-> newDir, events |-> <<>>]
    /\ UNCHANGED <<now, frames, pausedAt>>

DoTogglePause ==
    /\ ~crashed
    /\ frames < MaxFrames /\ ~IsOver
    /\ Install(TogglePause(Game))
    /\ log' = Called("TogglePause")
    /\ pausedAt' = IF IsPaused THEN ZeroTime ELSE now
    /\ UNCHANGED <<now, frames>>

DoGetState ==
    /\ ~crashed
    /\ frames < MaxFrames /\ ~IsOver
    /\ Install(GetState(Game))
    /\ log' = Called("GetState")
    /\ UNCHANGED <<now, frames, pausedAt>>

SnakeIds == {PlayerId} \cup EnemyIds(Game)

TimerExpire ==
    /\ ~crashed
    /\ \E id \in SnakeIds :
          LET s == GetSnake(Game, id)
          IN \/ /\ s.SpeedTimer.set /\ s.SpeedTimer.armed
                /\ now >= s.SpeedTimer.deadline
                /\ Install(SetSnake(Game, id, expireTimer(s)))
             \/ \E d \in s.orphanTimers :
                   /\ now >= d
                   /\ Install(SetSnake(Game, id, expireOrphan(s, d)))
    /\ log' = Called("TimerExpire")
    /\ UNCHANGED <<now, frames, pausedAt>>

TimerCallback ==
    /\ ~crashed
    /\ \E id \in SnakeIds :
          /\ GetSnake(Game, id).callbacks > 0
          /\ Install(SetSnake(Game, id, speedCallback(GetSnake(Game, id))))
    /\ log' = Called("TimerCallback")
    /\ UNCHANGED <<now, frames, pausedAt>>

Tick ==
    /\ ~crashed
    /\ frames < MaxFrames
    /\ \E d \in TickSteps : now + d <= MaxTime /\ now' = now + d
    /\ UNCHANGED <<PlayerSnake, EnemySnakes, FoodItems, Score, IsOver, IsPaused,
                   nextFoodSpawnTime, nextEnemySpawnTime, FoodEatenPos,
                   FoodEatenTime, EnemyFoodEatenPos, crashed, frames, pausedAt>>
    /\ log' = Called("Tick")

Next ==
    \/ DoReset
    \/ DoUpdate
    \/ DoHandleInput
    \/ DoTogglePause
    \/ DoGetState
    \/ TimerExpire
    \/ TimerCallback
    \/ Tick

Spec == Init /\ [][Next]_vars

(* A game left to itself for two enemy spawn intervals: no input, no pause  *)
(* and no restart, the clock running up to MaxSpawnTime.                    *)
SpawnTick ==
    /\ ~crashed
    /\ frames < MaxFrames
    /\ \E d \in TickSteps : now + d <= MaxSpawnTime /\ now' = now + d
    /\ UNCHANGED <<PlayerSnake, EnemySnakes, FoodItems, Score, IsOver, IsPaused,
                   nextFoodSpawnTime, nextEnemySpawnTime, FoodEatenPos,
                   FoodEatenTime, EnemyFoodEatenPos, crashed, frames, pausedAt>>
    /\ log' = Called("Tick")

SpawnNext ==
    \/ DoUpdate
    \/ TimerExpire
    \/ TimerCallback
    \/ SpawnTick

SpawnSpec == Init /\ [][SpawnNext]_vars

(* A game played through MaxAiFrames frames with input and the clock, and   *)
(* no pause, no restart and no snapshot: long enough for an enemy to        *)
(* outrun a turn of its cached path.                                        *)
AiUpdate ==
    /\ ~crashed
    /\ frames < MaxAiFrames /\ ~IsOver
    /\ \E deltaTime \in DeltaTimes :
          \E g \in Update(Game, deltaTime) :
             /\ Install(g)
             /\ log' = [call |-> "Update", start |-> Snapshot(Game),
                        end |-> Snapshot(g), events |-> g.events]
    /\ frames' = frames + 1
    /\ UNCHANGED <<now, pausedAt>>

AiHandleInput ==
    /\ ~crashed
    /\ frames < MaxAiFrames /\ ~IsOver
    /\ \E newDir \in Direction :
          /\ Install(HandleInput(Game, newDir))
          /\ log' = [call |-> "HandleInput", newDir |-> newDir, events |-> <<>>]
    /\ UNCHANGED <<now, frames, pausedAt>>

AiTick ==
    /\ ~crashed
    /\ frames < MaxAiFrames
    /\ \E d \in TickSteps : now + d <= MaxTime /\ now' = now + d
    /\ UNCHANGED <<PlayerSnake, EnemySnakes, FoodItems, Score, IsOver, IsPaused,
                   nextFoodSpawnTime, nextEnemySpawnTime, FoodEatenPos,
                   FoodEatenTime, EnemyFoodEatenPos, crashed, frames, pausedAt>>
    /\ log' = Called("Tick")

AiNext ==
    \/ AiUpdate
    \/ AiHandleInput
    \/ AiTick

AiSpec == Init /\ [][AiNext]_vars

(* The snapshot GetState returns holds the session's own *Snake for the     *)
(* player, the session's EnemySnakes slice (same backing array, same        *)
(* *Snake elements) and a fresh slice of the session's *Food elements.      *)
(* CallerWrite is a caller that, having taken a snapshot, writes to one of  *)
(* its collections: a cell of the player's body, two entries of the enemy   *)
(* list (it swaps them), or an entry of the food list.  The first two       *)
(* writes land in memory the session shares; the third lands in the copy.   *)
CallerCells == {Pos(0, 0)}

CallerWrite ==
    /\ ~crashed
    /\ log.call = "GetState"
    /\ \/ /\ \E i \in DOMAIN PlayerSnake.Body : \E p \in CallerCells :
                PlayerSnake' = [PlayerSnake EXCEPT !.Body[i] = p]
          /\ UNCHANGED <<EnemySnakes, FoodItems>>
       \/ /\ Len(EnemySnakes) >= 2
          /\ EnemySnakes' = [EnemySnakes EXCEPT ![1] = EnemySnakes[2],
                                                 ![2] = EnemySnakes[1]]
          /\ UNCHANGED <<PlayerSnake, FoodItems>>
       \/ /\ Len(FoodItems) >= 2
          /\ UNCHANGED <<PlayerSnake, EnemySnakes, FoodItems>>
    /\ log' = Called("CallerWrite")
    /\ UNCHANGED <<Score, IsOver, IsPaused, nextFoodSpawnTime,
                   nextEnemySpawnTime, FoodEatenPos, FoodEatenTime,
                   EnemyFoodEatenPos, crashed, now, frames, pausedAt>>

(* A game that is drawn: the frames, the clock, the snapshots and a caller  *)
(* of GetState that writes to what it was given.                            *)
ViewNext ==
    \/ DoUpdate
    \/ DoGetState
    \/ CallerWrite
    \/ Tick

ViewSpec == Init /\ [][ViewNext]_vars

---------------------------------------------------------------------------
(* findPath on its own: a query is drawn, then findPath is applied to it.   *)
(* The session is the empty one of ZeroGame; log holds the query and, after *)
(* the call, its result.                                                    *)

PathWidth == 3
PathHeight == 3
MaxObstacles == 3

PathCells == {Pos(x, y) : x \in 0..(PathWidth - 1), y \in 0..(PathHeight - 1)}

ObstacleMaps == {o \in SUBSET PathCells : Cardinality(o) <= MaxObstacles}

PathInit ==
    /\ now = 0
    /\ frames = 0
    /\ pausedAt = ZeroTime
    /\ PlayerSnake = ZeroGame.PlayerSnake
    /\ EnemySnakes = ZeroGame.EnemySnakes
    /\ FoodItems = ZeroGame.FoodItems
    /\ Score = ZeroGame.Score
    /\ IsOver = ZeroGame.IsOver
    /\ IsPaused = ZeroGame.IsPaused
    /\ nextFoodSpawnTime = ZeroGame.nextFoodSpawnTime
    /\ nextEnemySpawnTime = ZeroGame.nextEnemySpawnTime
    /\ FoodEatenPos = ZeroGame.FoodEatenPos
    /\ FoodEatenTime = ZeroGame.FoodEatenTime
    /\ EnemyFoodEatenPos = ZeroGame.EnemyFoodEatenPos
    /\ crashed = FALSE
    /\ \E start \in PathCells, target \in PathCells, obstacles \in ObstacleMaps :
          log = [call |-> "query", start |-> start, target |-> target,
                 obstacles |-> obstacles, events |-> <<>>]

DoFindPath ==
    /\ log.call = "query"
    /\ log' = [log EXCEPT !.call = "findPath"] @@
               [result |-> findPath(log.start, log.target, PathWidth, PathHeight,
                                    log.obstacles)]
    /\ UNCHANGED <<session, now, crashed, frames, pausedAt>>

PathNext == DoFindPath

PathSpec == PathInit /\ [][PathNext]_vars

---------------------------------------------------------------------------
(* Properties.  They are stated over the record of the last call: an event  *)
(* of kind "step" holds the snake as the finalized step left it (snake),    *)
(* the session before the step (pre) and the session after the collisions  *)
(* of the step were resolved (post).                                        *)

Events == log.events

InUpdate == log.call = "Update"

Steps == {k \in DOMAIN Events : Events[k].kind = "step"}

PlayerSteps == {k \in Steps : Events[k].id = PlayerId}

EnemySteps == {k \in Steps : Events[k].id # PlayerId}

Ids(enemies) == {enemies[j].id : j \in DOMAIN enemies}

InRange(s) == s.MoveProgress >= 0 /\ s.MoveProgress < OneCell

(* The head of s is on the head / on a segment behind the head of body. *)
OnHead(s, body) == Len(body) > 0 /\ s.Body[1] = body[1]

OnTail(s, body) == \E i \in 2..Len(body) : s.Body[1] = body[i]

(* The enemies other than the one that steps in event k, as the step found  *)
(* them.                                                                    *)
Others(k) == {e \in Range(Events[k].pre.EnemySnakes) : e.id # Events[k].id}

SameLength(s) == Len(s.Body) = Len(s.PrevBody)

SnakesOf(g) == {g.PlayerSnake} \cup Range(g.EnemySnakes)

(* C1: in every reachable state, and in the session every operation of    *)
(* the last call left (after Reset, after each finalized step with or       *)
(* without eating, after an enemy spawn, after game over), every snake -    *)
(* the player and every enemy in the collection - has as many segments in   *)
(* Body as in PrevBody.                                                     *)
C1_BodyAndPrevBodySameLength ==
    /\ \A s \in {PlayerSnake} \cup Range(EnemySnakes) : SameLength(s)
    /\ \A k \in DOMAIN Events : \A s \in SnakesOf(Events[k].post) : SameLength(s)

(* C1, its case: the last Update finalized a step in which the snake ate    *)
(* and grew, and the snake is still in the session.                         *)
C1_Witness ==
    /\ InUpdate
    /\ \E k \in Steps :
          /\ Len(Events[k].snake.Body)
                > Len(GetSnake(Events[k].pre, Events[k].id).Body)
          /\ Events[k].snake \in SnakesOf(Events[k].post)

(* C2: after an Update call that ran (the game was neither over nor paused  *)
(* when it was called) returns, the moveProgress of the player - also when  *)
(* the game ended in this call - and of every enemy is >= 0 and < 1 cell.   *)
C2_ProgressDrainedAfterUpdate ==
    (InUpdate /\ ~log.start.IsOver /\ ~IsPaused /\ ~crashed)
        => \A s \in {PlayerSnake} \cup Range(EnemySnakes) : InRange(s)

SpawnKinds == {"spawnFood", "spawnFoodAtCap", "spawnFoodFailed"}

(* C3: the food list never holds more than MaxTotalFoodItems items, in any  *)
(* state and after any operation of a Reset or Update call, and a spawn     *)
(* attempt (initial, timed or replacement) made with the list at the        *)
(* maximum leaves the list as it was.                                       *)
C3_FoodCap ==
    /\ Len(FoodItems) <= MaxTotalFoodItems
    /\ \A k \in DOMAIN Events :
          /\ Len(Events[k].post.FoodItems) <= MaxTotalFoodItems
          /\ (Events[k].kind \in SpawnKinds
               /\ Len(Events[k].pre.FoodItems) >= MaxTotalFoodItems)
                 => Events[k].post.FoodItems = Events[k].pre.FoodItems

(* C3, its case: an Update call attempted a spawn with the list full. *)
C3_Witness ==
    /\ InUpdate
    /\ \E k \in DOMAIN Events :
          /\ Events[k].kind \in SpawnKinds
          /\ Len(Events[k].pre.FoodItems) = MaxTotalFoodItems

(* C4: a finalized step of the player that leaves its head outside the     *)
(* grid sets IsOver in that step and is the last thing the Update call     *)
(* does (no enemy decision or movement follows); and an Update call made    *)
(* with the game over after such a step does nothing and leaves the         *)
(* player's Body and PrevBody as they were.                                 *)
C4_WallEndsTheGame ==
    /\ \A k \in PlayerSteps :
          hitWall(Events[k].snake, GridWidth, GridHeight)
            => /\ Events[k].post.IsOver
               /\ k = Len(Events)
               /\ IsOver
    /\ (InUpdate /\ log.start.IsOver
         /\ hitWall(log.start.PlayerSnake, GridWidth, GridHeight))
          => /\ Events = <<>>
             /\ IsOver
             /\ PlayerSnake.Body = log.start.PlayerSnake.Body
             /\ PlayerSnake.PrevBody = log.start.PlayerSnake.PrevBody

(* C4, its case: Update was called again after the player ran into a wall. *)
C4_Witness ==
    /\ InUpdate
    /\ log.start.IsOver
    /\ hitWall(log.start.PlayerSnake, GridWidth, GridHeight)

C6_EnemyPassToleratesRemoval ==
    /\ ~crashed
    /\ \A k \in DOMAIN Events : Events[k].kind # "panic"

(* C7: when a finalized step of an enemy leaves its head on the head of     *)
(* another enemy, the step removes exactly these two enemies from           *)
(* EnemySnakes, and both are absent after the Update call.                  *)
C7_EnemyHeadOn ==
    \A k \in EnemySteps : \A o \in Others(k) :
       OnHead(Events[k].snake, o.Body)
         => /\ Ids(Events[k].post.EnemySnakes)
                 = Ids(Events[k].pre.EnemySnakes) \ {Events[k].id, o.id}
            /\ Events[k].id \notin Ids(EnemySnakes)
            /\ o.id \notin Ids(EnemySnakes)

(* C7, its case: an enemy stepped onto the head of another enemy and the    *)
(* Update call returned.                                                    *)
C7_Witness ==
    /\ InUpdate
    /\ ~crashed
    /\ \E k \in EnemySteps : \E o \in Others(k) : OnHead(Events[k].snake, o.Body)

(* C8: when a finalized step of the player leaves its head on a cell of an  *)
(* enemy, the step ends the game; the enemy is removed from EnemySnakes     *)
(* exactly when the cell is its head, and an enemy hit behind its head      *)
(* stays in the collection unchanged.                                       *)
C8_PlayerHitsEnemy ==
    \A k \in PlayerSteps : \A o \in Others(k) :
       (OnHead(Events[k].snake, o.Body) \/ OnTail(Events[k].snake, o.Body))
         => /\ Events[k].post.IsOver
            /\ o.id \notin Ids(Events[k].post.EnemySnakes)
                  <=> OnHead(Events[k].snake, o.Body)
            /\ ~OnHead(Events[k].snake, o.Body)
                  => o \in Range(Events[k].post.EnemySnakes)

(* C8, its case: the player stepped onto a segment behind the head of an    *)
(* enemy.                                                                   *)
C8_Witness ==
    /\ InUpdate
    /\ \E k \in PlayerSteps : \E o \in Others(k) :
          OnTail(Events[k].snake, o.Body)

(* C9: when a finalized step of an enemy leaves its head on a cell of the   *)
(* player, the step removes that enemy; it ends the game exactly when the   *)
(* cell is the player's head, and otherwise the player's Body, the score    *)
(* and IsOver are as they were before the step.                             *)
C9_EnemyHitsPlayer ==
    \A k \in EnemySteps :
       LET player == Events[k].pre.PlayerSnake
           onHead == OnHead(Events[k].snake, player.Body)
       IN (onHead \/ OnTail(Events[k].snake, player.Body))
            => /\ Events[k].id \notin Ids(Events[k].post.EnemySnakes)
               /\ Events[k].post.IsOver <=> onHead
               /\ ~onHead
                     => /\ Events[k].post.PlayerSnake.Body = player.Body
                        /\ Events[k].post.Score = Events[k].pre.Score
                        /\ Events[k].post.IsOver = Events[k].pre.IsOver

(* C9, its case: an enemy stepped onto a segment behind the player's head. *)
C9_Witness ==
    /\ InUpdate
    /\ \E k \in EnemySteps :
          OnTail(Events[k].snake, Events[k].pre.PlayerSnake.Body)

(* C10: when a finalized step of an enemy leaves its head on a segment      *)
(* behind the head of another enemy, the step removes the moving enemy and  *)
(* nothing else: the other enemy stays in EnemySnakes as it was (Body,      *)
(* Direction, path) and IsOver does not change.                             *)
C10_EnemyHitsEnemyBody ==
    \A k \in EnemySteps : \A o \in Others(k) :
       (OnTail(Events[k].snake, o.Body) /\ ~OnHead(Events[k].snake, o.Body))
         => /\ Ids(Events[k].post.EnemySnakes)
                 = Ids(Events[k].pre.EnemySnakes) \ {Events[k].id}
            /\ o \in Range(Events[k].post.EnemySnakes)
            /\ Events[k].post.IsOver = Events[k].pre.IsOver

(* C10, its case: the collision happened with a third enemy in the          *)
(* collection.                                                              *)
C10_Witness ==
    /\ InUpdate
    /\ \E k \in EnemySteps :
          /\ Len(Events[k].pre.EnemySnakes) = MaxEnemySnakes
          /\ \E o \in Others(k) : OnTail(Events[k].snake, o.Body)


---------------------------------------------------------------------------
(* Calls of the input and control operations *)

(* C11: a HandleInput call whose argument is the exact opposite of the      *)
(* player's committed Direction leaves NextDir and every other field of     *)
(* the session as they were.                                                *)
C11_ReversalRule ==
    [][ (log'.call = "HandleInput" /\ IsReverse(log'.newDir, PlayerSnake.Direction))
           => UNCHANGED session ]_vars

(* C11, its case: a reversal was requested while the committed direction    *)
(* was not the initial one and another direction was buffered in NextDir.   *)
C11_Witness ==
    /\ log.call = "HandleInput"
    /\ IsReverse(log.newDir, PlayerSnake.Direction)
    /\ PlayerSnake.Direction # DirRight
    /\ PlayerSnake.NextDir # PlayerSnake.Direction

(* The first food item lying on the new head of the step of event k, 0 if   *)
(* there is none.                                                           *)
AteIndex(k) ==
    LET at == {i \in DOMAIN Events[k].pre.FoodItems :
                  Events[k].pre.FoodItems[i].Pos = Events[k].snake.Body[1]}
    IN IF at = {} THEN 0 ELSE Min(at)

IsPrefix(p, q) == Len(p) <= Len(q) /\ SubSeq(q, 1, Len(p)) = p

(* C12: a finalized step of the player whose new head cell holds a food     *)
(* item makes Body one longer, adds the Points of the item to Score and     *)
(* removes the item from FoodItems; a step onto a cell without food leaves  *)
(* the length of Body and Score as they were.                               *)
C12_PlayerGrowth ==
    InUpdate =>
      \A k \in PlayerSteps :
         LET pre == Events[k].pre
             post == Events[k].post
             i == AteIndex(k)
         IN IF i # 0
            THEN /\ Len(post.PlayerSnake.Body) = Len(pre.PlayerSnake.Body) + 1
                 /\ post.Score = pre.Score + pre.FoodItems[i].Points
                 /\ IsPrefix(RemoveAt(pre.FoodItems, i), post.FoodItems)
                 /\ \A j \in DOMAIN post.FoodItems :
                       post.FoodItems[j].Pos # pre.FoodItems[i].Pos
            ELSE /\ Len(post.PlayerSnake.Body) = Len(pre.PlayerSnake.Body)
                 /\ post.Score = pre.Score

(* C12, its case: in one Update call the player made a step that ate a     *)
(* food item and a step onto a cell without food.                           *)
C12_Witness ==
    /\ InUpdate
    /\ \E k \in PlayerSteps : AteIndex(k) # 0
    /\ \E k \in PlayerSteps : AteIndex(k) = 0


---------------------------------------------------------------------------
(* Properties of findPath, stated over the query and the result in log. *)

Answered == log.call = "findPath"

(* The cells one move away from a set of cells: in bounds and not an        *)
(* obstacle.                                                                *)
Step(cells, obstacles) ==
    {c \in PathCells \ obstacles :
        \E p \in cells : heuristic(p, c) = 1}

(* Breadth-first search: the least number of moves from the cells of        *)
(* frontier (reached in d moves) to target, 0 - 1 if there is no route.     *)
RECURSIVE Bfs(_, _, _, _, _)
Bfs(frontier, seen, d, target, obstacles) ==
    IF target \in frontier THEN d
    ELSE IF frontier = {} THEN 0 - 1
    ELSE Bfs(Step(frontier, obstacles) \ seen, seen \cup frontier, d + 1,
             target, obstacles)

ShortestLength == Bfs({log.start}, {}, 0, log.target, log.obstacles)

(* C13: when the target can be reached from the start, findPath returns a   *)
(* path as long as the shortest route; without obstacles that is the        *)
(* Manhattan distance between start and target.                             *)
C13_PathIsShortest ==
    Answered =>
      /\ ShortestLength >= 0 =>
             ~log.result.nil /\ Len(log.result.path) = ShortestLength
      /\ log.obstacles = {} =>
             Len(log.result.path) = heuristic(log.start, log.target)

(* C13, its case: obstacles force a route longer than the Manhattan         *)
(* distance and findPath has answered.                                      *)
C13_Witness ==
    /\ Answered
    /\ ShortestLength > heuristic(log.start, log.target) + 2

(* C14: findPath returns nil exactly when there is no route from the start  *)
(* to the target, in particular when the target is an obstacle and is not   *)
(* the start.                                                               *)
C14_NilIffUnreachable ==
    Answered =>
      /\ log.result.nil <=> ShortestLength < 0
      /\ (log.target \in log.obstacles /\ log.start # log.target) => log.result.nil

(* C14, its case: the target is free, is not the start, is enclosed by      *)
(* obstacles and the grid border, and findPath has answered.                *)
C14_Witness ==
    /\ Answered
    /\ log.target \notin log.obstacles
    /\ log.start # log.target
    /\ Step({log.target}, log.obstacles) = {}
    /\ log.result.nil

Adjacent(a, b) == heuristic(a, b) = 1

(* C15: a non-empty path returned by findPath starts next to the start,     *)
(* moves one cell at a time, ends on the target, leaves out the start and   *)
(* stays in bounds and off the obstacles.                                   *)
C15_PathInTravelOrder ==
    Answered =>
      LET path == log.result.path
      IN Len(path) > 0 =>
           /\ Adjacent(log.start, path[1])
           /\ \A i \in 2..Len(path) : Adjacent(path[i - 1], path[i])
           /\ path[Len(path)] = log.target
           /\ \A i \in 1..Len(path) :
                 /\ path[i] # log.start
                 /\ isValid(path[i], PathWidth, PathHeight)
                 /\ path[i] \notin log.obstacles

(* C15, its case: findPath returned a path of at least three cells that     *)
(* turns.                                                                   *)
C15_Witness ==
    /\ Answered
    /\ Len(log.result.path) >= 3
    /\ \E i \in 1..Len(log.result.path) :
          log.result.path[i].X # log.start.X /\ log.result.path[i].Y # log.start.Y


---------------------------------------------------------------------------
(* Speed effects, pause and game over *)

(* The snake with the id of s in the next state; s itself if it is gone. *)
After(s) ==
    IF s.id = PlayerId THEN PlayerSnake'
    ELSE IF \E e \in Range(EnemySnakes') : e.id = s.id
         THEN CHOOSE e \in Range(EnemySnakes') : e.id = s.id
         ELSE s

(* The runtime owes the snake an expiry: a timer of its effect is due, or   *)
(* the callback of an expired timer has not run yet.                        *)
ExpiryDue(s) ==
    \/ s.SpeedTimer.set /\ s.SpeedTimer.armed /\ s.SpeedTimer.deadline <= now
    \/ \E d \in s.orphanTimers : d <= now
    \/ s.callbacks > 0

(* The factor a food item of a type gives, 10 for a type without effect. *)
FactorOf(type) ==
    CASE type = FoodTypeSpeedUp  -> 15
      [] type = FoodTypeSlowDown -> 6
      [] OTHER                   -> 10

(* C16: a step that eats a food item with a speed effect leaves the snake   *)
(* with the factor of the item, and once the clock has reached the end of   *)
(* the effect (the time of the call plus the duration) SpeedFactor is 1.0   *)
(* again, at the latest when the runtime has run the expiry it owes; pause  *)
(* and game over make no difference.                                        *)
C16_SpeedBoostExpiry ==
    /\ InUpdate =>
          \A k \in Steps :
             (AteIndex(k) # 0
                /\ Events[k].pre.FoodItems[AteIndex(k)].Type # FoodTypeStandard)
               => Events[k].snake.SpeedFactor
                     = FactorOf(Events[k].pre.FoodItems[AteIndex(k)].Type)
    /\ \A s \in SnakesOf(Game) :
          (s.SpeedEffectEndTime # ZeroTime /\ now >= s.SpeedEffectEndTime
             /\ ~ExpiryDue(s))
            => s.SpeedFactor = 10

(* The time at which the runtime will end the effect of s is t. *)
EffectEndsAt(s, t) ==
    s.SpeedTimer.set /\ s.SpeedTimer.armed /\ s.SpeedTimer.deadline = t

(* C17: while the game is paused no speed effect ends, and the resuming     *)
(* TogglePause leaves every snake with an active effect the time that was   *)
(* left when the game was paused: the effect ends that long after the       *)
(* resume.                                                                  *)
C17_PauseFreezesSpeedEffects ==
    [][ /\ (IsPaused /\ IsPaused') =>
              \A s \in SnakesOf(Game) : After(s).SpeedFactor = s.SpeedFactor
        /\ (IsPaused /\ log'.call = "TogglePause") =>
              \A s \in SnakesOf(Game) :
                 (s.SpeedFactor # 10 /\ s.SpeedEffectEndTime > pausedAt)
                   => /\ After(s).SpeedFactor = s.SpeedFactor
                      /\ EffectEndsAt(After(s),
                                      now + (s.SpeedEffectEndTime - pausedAt))
      ]_vars

(* C18: an Update call made while the game is paused leaves every field of  *)
(* the session as it was.                                                   *)
C18_UpdateWhilePaused ==
    [][ (log'.call = "Update" /\ IsPaused) => UNCHANGED session ]_vars

(* C18, its case: Update returned while the game was paused, a timed food   *)
(* spawn was due and the player had progress accumulated.                   *)
C18_Witness ==
    /\ log.call = "Update"
    /\ IsPaused
    /\ now > nextFoodSpawnTime
    /\ PlayerSnake.MoveProgress > 0

(* C19: IsOver stays true until a Reset call, and an Update call made while *)
(* IsOver is true leaves every field of the session as it was.              *)
C19_GameOverIsFinal ==
    [][ /\ IsOver => (IsOver' \/ log'.call = "Reset")
        /\ (log'.call = "Update" /\ IsOver) => UNCHANGED session ]_vars

(* C19, its case: Update returned after it was called with the game over,   *)
(* with enemies left in the session and a timed food spawn due.             *)
C19_Witness ==
    /\ log.call = "Update"
    /\ log.start.IsOver
    /\ IsOver
    /\ Len(EnemySnakes) > 0
    /\ now > nextFoodSpawnTime

(* The fields of a Snake the program declares (the timer aside). *)
Fields(s) ==
    [ Body |-> s.Body, PrevBody |-> s.PrevBody, Direction |-> s.Direction,
      NextDir |-> s.NextDir, SpeedFactor |-> s.SpeedFactor,
      SpeedEffectEndTime |-> s.SpeedEffectEndTime, IsPlayer |-> s.IsPlayer,
      MoveProgress |-> s.MoveProgress, currentPath |-> s.currentPath ]

SessionFields ==
    << Fields(PlayerSnake),
       [i \in DOMAIN EnemySnakes |-> Fields(EnemySnakes[i])],
       FoodItems, Score, IsOver, IsPaused, nextFoodSpawnTime,
       nextEnemySpawnTime, FoodEatenPos, FoodEatenTime, EnemyFoodEatenPos >>

(* C20: the fields of the session change only in steps that are Update,     *)
(* HandleInput, TogglePause or Reset calls.                                 *)
C20_MutatedOnlyInCalls ==
    [][ log'.call \notin {"Update", "HandleInput", "TogglePause", "Reset"}
          => SessionFields' = SessionFields ]_vars


---------------------------------------------------------------------------
(* Reset, spawning and the order of an Update call *)

InReset == log.call = "Reset"

(* C21: whatever state Reset is called in, it leaves the player with        *)
(* InitialSnakeLen segments on the start cells, heading right at factor     *)
(* 1.0 with no progress and no path, Score 0, IsOver and IsPaused false,    *)
(* at most NumEnemySnakes enemies of InitialSnakeLen segments each and at   *)
(* most InitialFoodItems food items.                                        *)
C21_ResetStartState ==
    InReset =>
      /\ Len(PlayerSnake.Body) = InitialSnakeLen
      /\ \A i \in 1..InitialSnakeLen :
            PlayerSnake.Body[i] = Pos((GridWidth \div 4) - (i - 1), GridHeight \div 2)
      /\ PlayerSnake.PrevBody = PlayerSnake.Body
      /\ PlayerSnake.Direction = DirRight
      /\ PlayerSnake.NextDir = DirRight
      /\ PlayerSnake.SpeedFactor = 10
      /\ PlayerSnake.MoveProgress = 0
      /\ PlayerSnake.currentPath = <<>>
      /\ Score = 0
      /\ ~IsOver
      /\ ~IsPaused
      /\ Len(EnemySnakes) <= NumEnemySnakes
      /\ \A e \in Range(EnemySnakes) : Len(e.Body) = InitialSnakeLen
      /\ Len(FoodItems) <= InitialFoodItems

(* C21, its case: Reset was called while the game was paused in the middle  *)
(* of a game with points scored.                                            *)
C21_Witness ==
    /\ InReset
    /\ log.from.IsPaused
    /\ log.from.Score > 0

(* C22: every finalized step in which a snake eats removes the eaten item   *)
(* and adds a replacement, so the number of food items after the step is    *)
(* the number before it.                                                    *)
C22_EatingSpawnsReplacement ==
    \A k \in Steps :
       AteIndex(k) # 0 =>
          Len(Events[k].post.FoodItems) = Len(Events[k].pre.FoodItems)

AiEvents == {k \in DOMAIN Events : Events[k].kind = "ai"}

EnemyOf(view, id) ==
    view.EnemySnakes[CHOOSE j \in DOMAIN view.EnemySnakes :
                        view.EnemySnakes[j].id = id]

(* C23: an AI decision changes only the NextDir and the cached path of its  *)
(* enemy: the enemy's other fields, the other snakes, the order of the      *)
(* collection, the food, the score, the flags and the schedules are as      *)
(* before the decision.                                                     *)
C23_AiOnlyDecides ==
    \A k \in AiEvents :
       LET pre == Events[k].pre
           post == Events[k].post
           id == Events[k].id
       IN /\ [post EXCEPT !.EnemySnakes = pre.EnemySnakes] = pre
          /\ DOMAIN post.EnemySnakes = DOMAIN pre.EnemySnakes
          /\ \A j \in DOMAIN pre.EnemySnakes :
                IF pre.EnemySnakes[j].id = id
                THEN [post.EnemySnakes[j] EXCEPT
                        !.NextDir = pre.EnemySnakes[j].NextDir,
                        !.currentPath = pre.EnemySnakes[j].currentPath]
                     = pre.EnemySnakes[j]
                ELSE post.EnemySnakes[j] = pre.EnemySnakes[j]

(* C23, its case: a decision that turned the enemy and replaced its path.   *)
C23_Witness ==
    \E k \in AiEvents :
       LET before == EnemyOf(Events[k].pre, Events[k].id)
           after == EnemyOf(Events[k].post, Events[k].id)
       IN /\ after.NextDir # before.NextDir
          /\ after.currentPath # before.currentPath
          /\ after.NextDir # after.Direction

EnemySpawnKinds == {"spawnEnemy", "spawnEnemyFailed", "spawnEnemyAtCap"}

EnemySpawns == {k \in DOMAIN Events : Events[k].kind \in EnemySpawnKinds}

(* The enemy spawn check of this Update call was due. *)
EnemySpawnDue ==
    /\ InUpdate
    /\ ~IsPaused
    /\ ~log.start.IsOver
    /\ now > log.start.nextEnemySpawnTime

(* C24: the collection never holds more than MaxEnemySnakes enemies; a     *)
(* timed spawn check appends at most one enemy and none to a full           *)
(* collection, it runs once in an Update call in which it is due, and the   *)
(* next check is then scheduled EnemySpawnInterval after the call, placed   *)
(* or not.                                                                  *)
C24_EnemyCap ==
    /\ Len(EnemySnakes) <= MaxEnemySnakes
    /\ \A k \in EnemySpawns :
          LET pre == Events[k].pre.EnemySnakes
              post == Events[k].post.EnemySnakes
          IN /\ IsPrefix(pre, post)
             /\ Len(post) <= Len(pre) + 1
             /\ Len(post) <= MaxEnemySnakes
             /\ Len(pre) = MaxEnemySnakes => post = pre
    /\ InUpdate => Cardinality(EnemySpawns) = IF EnemySpawnDue THEN 1 ELSE 0
    /\ EnemySpawnDue => log.end.nextEnemySpawnTime = now + EnemySpawnInterval

(* C24, its case: a spawn check that found the collection full.             *)
C24_Witness ==
    /\ EnemySpawnDue
    /\ \E k \in EnemySpawns :
          /\ Events[k].kind = "spawnEnemyAtCap"
          /\ Len(Events[k].pre.EnemySnakes) = MaxEnemySnakes

(* The points of the food the player ate in the first n events of the call. *)
RECURSIVE PointsEaten(_)
PointsEaten(n) ==
    IF n = 0
    THEN 0
    ELSE PointsEaten(n - 1)
         + (IF n \in PlayerSteps /\ AteIndex(n) # 0
            THEN Events[n].pre.FoodItems[AteIndex(n)].Points
            ELSE 0)

ScoreOfCall ==
    InUpdate =>
      /\ log.end.Score = log.start.Score + PointsEaten(Len(Events))
      /\ \A k \in DOMAIN Events :
            /\ Events[k].post.Score >= Events[k].pre.Score
            /\ Events[k].post.Score # Events[k].pre.Score
                  => k \in PlayerSteps /\ AteIndex(k) # 0
      /\ \A k \in EnemySteps :
            AteIndex(k) # 0 =>
               /\ Events[k].post.Score = Events[k].pre.Score
               /\ Len(Events[k].snake.Body)
                     = Len(EnemyOf(Events[k].pre, Events[k].id).Body) + 1
               /\ IsPrefix(RemoveAt(Events[k].pre.FoodItems, AteIndex(k)),
                           Events[k].post.FoodItems)
               /\ \A j \in DOMAIN Events[k].post.FoodItems :
                     Events[k].post.FoodItems[j].Pos # Events[k].snake.Body[1]

ScoreOfStep ==
    /\ log'.call \notin {"Update", "Reset"} => Score' = Score
    /\ log'.call = "Update" =>
          /\ log'.start.Score = Score
          /\ log'.end.Score = Score'
          /\ Score' >= Score

(* C25: outside Reset the score never goes down; it changes only in Update *)
(* calls, by the points of the food the player ate in finalized steps.  A   *)
(* step in which an enemy eats leaves the enemy one segment longer, takes   *)
(* the item from the food list and leaves the score as it was.              *)
C25_ScoreOnlyFromPlayerFood == []ScoreOfCall /\ [][ScoreOfStep]_vars

(* C25, its case: an Update call in which the player ate and an enemy ate,  *)
(* the score going up by the player's item only.                            *)
C25_Witness ==
    /\ InUpdate
    /\ \E k \in PlayerSteps : AteIndex(k) # 0
    /\ \E k \in EnemySteps : AteIndex(k) # 0
    /\ log.end.Score > log.start.Score

InBounds(body) == \A c \in Range(body) : isValid(c, GridWidth, GridHeight)

(* C26: an enemy placed by Reset lies in bounds and shares no cell with the *)
(* player or with an enemy placed before it; an enemy placed by a timed     *)
(* spawn lies in bounds, shares no cell with a snake or a food item of the  *)
(* session it is added to, and is appended to the collection, nothing else  *)
(* changing; a spawn that finds no placement leaves the session as it was.  *)
C26_EnemyPlacement ==
    /\ InReset =>
          \A j \in DOMAIN EnemySnakes :
             /\ InBounds(EnemySnakes[j].Body)
             /\ Range(EnemySnakes[j].Body) \cap Range(PlayerSnake.Body) = {}
             /\ \A i \in 1..(j - 1) :
                   Range(EnemySnakes[j].Body) \cap Range(EnemySnakes[i].Body) = {}
    /\ \A k \in EnemySpawns :
          IF Events[k].kind = "spawnEnemy"
          THEN /\ InBounds(Events[k].snake.Body)
               /\ Range(Events[k].snake.Body)
                     \cap (SnakeCells(Events[k].pre) \cup FoodCells(Events[k].pre))
                  = {}
               /\ Events[k].post
                  = [Events[k].pre EXCEPT !.EnemySnakes = Append(@, Events[k].snake)]
          ELSE Events[k].post = Events[k].pre

(* C26, its case: a timed spawn placed an enemy in a session with food and *)
(* two enemies, one of them still in the spawn columns.                     *)
C26_Witness ==
    \E k \in EnemySpawns :
       /\ Events[k].kind = "spawnEnemy"
       /\ Len(Events[k].pre.EnemySnakes) = NumEnemySnakes
       /\ Events[k].pre.FoodItems # <<>>
       /\ \E c \in SnakeCells(Events[k].pre) :
             c.X >= GridWidth - (GridWidth \div 4)

(* C27: a step that eats a food item with a speed effect while an earlier   *)
(* effect of the snake is still in force leaves the snake with the factor   *)
(* of the new item and an expiry one duration after the step; and outside   *)
(* Reset the factor of a snake goes back to 1.0, and the end time of its    *)
(* effect is cleared, only when the clock has reached that end time: the    *)
(* expiry of an earlier effect never ends the new one.                      *)
C27_BoostReplacesBoost ==
    /\ [](InUpdate =>
            \A k \in Steps :
               (/\ AteIndex(k) # 0
                /\ Events[k].pre.FoodItems[AteIndex(k)].Type # FoodTypeStandard
                /\ GetSnake(Events[k].pre, Events[k].id).SpeedFactor # 10)
                 => /\ Events[k].snake.SpeedFactor
                          = FactorOf(Events[k].pre.FoodItems[AteIndex(k)].Type)
                    /\ Events[k].snake.SpeedEffectEndTime > now
                    /\ EffectEndsAt(Events[k].snake,
                                    Events[k].snake.SpeedEffectEndTime))
    /\ [][ log'.call # "Reset" =>
             \A s \in SnakesOf(Game) :
                /\ (s.SpeedFactor # 10 /\ After(s).SpeedFactor = 10)
                      => now >= s.SpeedEffectEndTime
                /\ (s.SpeedEffectEndTime # ZeroTime
                      /\ After(s).SpeedEffectEndTime = ZeroTime)
                      => now >= s.SpeedEffectEndTime ]_vars

(* The enemies in the collection when the enemy pass of the call starts:    *)
(* those the call found and the one its timed spawn placed.                 *)
PassStartIds ==
    Ids(log.start.EnemySnakes)
      \cup {Events[k].id : k \in {j \in EnemySpawns : Events[j].kind = "spawnEnemy"}}

(* The Update call ran its enemy pass to the end. *)
PassCompleted ==
    /\ InUpdate
    /\ ~IsPaused
    /\ ~log.start.IsOver
    /\ ~log.end.IsOver
    /\ ~crashed

(* C28: in an Update call that runs its enemy pass to the end, every enemy  *)
(* that is in the collection when the pass starts and when it ends gets     *)
(* exactly one AI decision (each decision is followed by the one progress   *)
(* accumulation of that enemy), whatever the steps of the pass removed.     *)
C28_OneDecisionPerEnemy ==
    PassCompleted =>
      \A id \in PassStartIds \cap Ids(log.end.EnemySnakes) :
         Cardinality({k \in AiEvents : Events[k].id = id}) = 1

Greatest(S) == CHOOSE m \in S : \A n \in S : m >= n

IndexIn(enemies, id) == CHOOSE j \in DOMAIN enemies : enemies[j].id = id

(* The index, in the collection it was read from, of the enemy an AI        *)
(* decision was made for (the first index is 1).                            *)
IndexAt(k) == IndexIn(Events[k].pre.EnemySnakes, Events[k].id)

(* The AI decision made just before event k of the call, 0 if there is none. *)
LastAiBefore(k) ==
    IF \E a \in AiEvents : a < k
    THEN Greatest({a \in AiEvents : a < k})
    ELSE 0

(* Every step of the player comes before every decision and step of an      *)
(* enemy, and every step of an enemy belongs to the enemy whose decision    *)
(* was the last one made before it.                                         *)
PlayerThenEnemies ==
    /\ \A k \in PlayerSteps : \A j \in AiEvents \cup EnemySteps : k < j
    /\ \A k \in EnemySteps :
          /\ LastAiBefore(k) # 0
          /\ Events[LastAiBefore(k)].id = Events[k].id

(* C29 as claimed: the player first, then the enemies in the order of the  *)
(* collection, index 0 first and the last index last, each AI decision     *)
(* right before the steps of its enemy.                                     *)
C29_CollectionOrder ==
    InUpdate =>
      /\ PlayerThenEnemies
      /\ \A a \in AiEvents : \A b \in AiEvents :
            (a < b /\ Events[b].id \in Ids(Events[a].pre.EnemySnakes))
              => IndexAt(a) < IndexIn(Events[a].pre.EnemySnakes, Events[b].id)

(* C29, amended: the player first, then the enemies from the last index of  *)
(* the collection down to index 0, every decision being made for the enemy  *)
(* found at the next lower index of the collection as it is by then, each   *)
(* AI decision right before the steps of its enemy.                         *)
C29_ReverseCollectionOrder ==
    InUpdate =>
      /\ PlayerThenEnemies
      /\ \A a \in AiEvents :
            IF LastAiBefore(a) = 0
            THEN IndexAt(a) = Len(Events[a].pre.EnemySnakes)
            ELSE IndexAt(a) = IndexAt(LastAiBefore(a)) - 1
      /\ (PassCompleted /\ AiEvents # {}) => IndexAt(Greatest(AiEvents)) = 1

(* C29, its case: an Update call in which the player stepped and two        *)
(* enemies decided and stepped, the one at the higher index first.          *)
C29_Witness ==
    /\ PassCompleted
    /\ PlayerSteps # {}
    /\ \E a \in AiEvents : \E b \in AiEvents :
          /\ a < b
          /\ Events[a].id # Events[b].id
          /\ Events[b].id \in Ids(Events[a].pre.EnemySnakes)
          /\ IndexAt(a) > IndexIn(Events[a].pre.EnemySnakes, Events[b].id)
          /\ \E k \in EnemySteps : Events[k].id = Events[a].id
          /\ \E k \in EnemySteps : Events[k].id = Events[b].id

(* The snake that steps in event k, as the step found it. *)
Mover(k) == GetSnake(Events[k].pre, Events[k].id)

(* The step of event k left the head of its snake outside the grid, on the  *)
(* snake itself or on another snake.                                        *)
Collided(k) ==
    \/ ~isValid(Events[k].snake.Body[1], GridWidth, GridHeight)
    \/ OnTail(Events[k].snake, Events[k].snake.Body)
    \/ \E o \in SnakesOf(Events[k].pre) :
          o.id # Events[k].id /\ Events[k].snake.Body[1] \in Range(o.Body)

(* The step of event k ended the game or removed its snake. *)
Fatal(k) ==
    \/ Events[k].post.IsOver
    \/ Events[k].id # PlayerId /\ Events[k].id \notin Ids(Events[k].post.EnemySnakes)

(* C30: the steps due in one Update call are finalized one at a time, each  *)
(* moving the head by one shift in the committed direction from the body    *)
(* the previous one left; a step that hits a wall, the snake itself or      *)
(* another snake is fatal at once, whatever progress is left; after a fatal *)
(* step the call finalizes no further step of that snake, and the snake,    *)
(* if still in the session, has the body of the fatal step when the call    *)
(* returns.                                                                 *)
C30_CollisionsAfterEachStep ==
    InUpdate =>
      \A k \in Steps :
         /\ Events[k].snake.Body[1]
               = Shift(Mover(k).Body[1], Events[k].snake.Direction)
         /\ Tail(Events[k].snake.Body)
               = SubSeq(Mover(k).Body, 1, Len(Events[k].snake.Body) - 1)
         /\ Collided(k) => Fatal(k)
         /\ Fatal(k) =>
               /\ \A j \in Steps : j > k => Events[j].id # Events[k].id
               /\ \A s \in SnakesOf(log.end) :
                     s.id = Events[k].id => s.Body = Events[k].snake.Body

(* C30, its case: two steps were due for the player, the first one was      *)
(* fatal and the second one was not made.                                   *)
C30_Witness ==
    /\ InUpdate
    /\ \E k \in PlayerSteps :
          /\ Fatal(k)
          /\ Collided(k)
          /\ Events[k].snake.Direction # DirNone
          /\ Events[k].snake.MoveProgress >= OneCell
          /\ PlayerSnake.Body = Events[k].snake.Body

---------------------------------------------------------------------------
(* Properties of the decisions of the enemy AI, stated over the "ai"       *)
(* events of a call: pre is the session the decision found, snake the       *)
(* enemy as the decision left it.                                           *)

(* The enemy of the decision of event k, as the decision found it. *)
Decider(k) == EnemyOf(Events[k].pre, Events[k].id)

(* The cached path of s once a first element equal to the head is popped. *)
PathAfterPop(s) ==
    IF Len(s.currentPath) > 0 /\ s.currentPath[1] = s.Body[1]
    THEN Tail(s.currentPath)
    ELSE s.currentPath

(* The decision of event k works with a cached path: the path is not empty  *)
(* and stays so after the pop.                                              *)
HasCachedPath(k) == Len(PathAfterPop(Decider(k))) > 0

(* The direction of s toward the first element of its cached path. *)
PathDir(s) == directionFromTo(s.Body[1], PathAfterPop(s)[1])

(* A step of s toward its cached path would put the head on the neck. *)
TowardNeck(s) == Len(s.Body) > 1 /\ Shift(s.Body[1], PathDir(s)) = s.Body[2]

(* The cells a plan of s in the session view has to avoid: every segment    *)
(* of the player and of the other enemies, and the segments of s behind     *)
(* its head.                                                                *)
Blocked(view, s) ==
    {c \in Range(view.PlayerSnake.Body) : TRUE}
    \cup {c \in UNION {Range(view.EnemySnakes[j].Body) : j \in DOMAIN view.EnemySnakes} :
            \E j \in DOMAIN view.EnemySnakes :
               view.EnemySnakes[j].id # s.id /\ c \in Range(view.EnemySnakes[j].Body)}
    \cup {s.Body[i] : i \in 2..Len(s.Body)}

(* The directions a random choice for s may take: not the reverse of its    *)
(* Direction, and leading to a cell of the grid that is not blocked.        *)
SafeDirs(view, s) ==
    {d \in {DirUp, DirDown, DirLeft, DirRight} :
        /\ ~IsReverse(d, s.Direction)
        /\ isValid(Shift(s.Body[1], d), GridWidth, GridHeight)
        /\ Shift(s.Body[1], d) \notin Blocked(view, s)}

(* s2 is s after a random choice in the session view. *)
RandomChoice(view, s, s2) ==
    /\ s2.currentPath = <<>>
    /\ IF SafeDirs(view, s) # {}
       THEN s2.NextDir \in SafeDirs(view, s)
       ELSE s2.NextDir = s.Direction

(* s2 is s after a replan in the session view: the path found to the       *)
(* nearest food item and its first direction, or a random choice when       *)
(* there is no food or no path.                                             *)
Replanned(view, s, s2) ==
    LET target == findClosestFood(view, s.Body[1])
        found == IF target = 0 THEN <<>>
                 ELSE findPath(s.Body[1], view.FoodItems[target].Pos,
                               GridWidth, GridHeight, Blocked(view, s)).path
    IN IF Len(found) > 0
       THEN /\ s2.currentPath = found
            /\ s2.NextDir = directionFromTo(s.Body[1], found[1])
       ELSE RandomChoice(view, s, s2)

(* C31: a decision that works with a cached path (not empty after a first   *)
(* element equal to the head is popped) replans, from an empty path, when   *)
(* a step toward the first element would put the head on the neck;          *)
(* otherwise it sets NextDir to the direction from the head to that         *)
(* element and keeps the path, with no search and no random choice.         *)
C31_PathFollowing ==
    \A k \in AiEvents :
       HasCachedPath(k) =>
          IF TowardNeck(Decider(k))
          THEN Replanned(Events[k].pre, Decider(k), Events[k].snake)
          ELSE /\ Events[k].snake.NextDir = PathDir(Decider(k))
               /\ Events[k].snake.currentPath = PathAfterPop(Decider(k))

(* C31, its case: the first element of the cached path lay behind the     *)
(* head, on the neck, and the decision cached a new path.                   *)
C31_Witness ==
    \E k \in AiEvents :
       /\ HasCachedPath(k)
       /\ TowardNeck(Decider(k))
       /\ Len(Events[k].snake.currentPath) > 0
       /\ Events[k].snake.currentPath # PathAfterPop(Decider(k))

(* The decision of event k replans: it has no cached path to work with, or  *)
(* the path leads onto the neck.                                            *)
Replans(k) == ~HasCachedPath(k) \/ TowardNeck(Decider(k))

(* Item i of the food list is the first of the items nearest to pos. *)
FirstNearest(food, i, pos) ==
    \A j \in DOMAIN food :
       /\ heuristic(pos, food[j].Pos) >= heuristic(pos, food[i].Pos)
       /\ j < i => heuristic(pos, food[j].Pos) > heuristic(pos, food[i].Pos)

(* C32: a path cached by a replan ends on the first of the food items       *)
(* nearest to the head (Manhattan distance), starts next to the head and    *)
(* holds no cell that the player, another enemy or a segment of the enemy   *)
(* behind its head occupies when the decision is made; NextDir is the       *)
(* direction from the head to the first cell of the path.                   *)
C32_ReplanTargetsNearestFood ==
    \A k \in AiEvents :
       LET s == Decider(k)
           path == Events[k].snake.currentPath
           food == Events[k].pre.FoodItems
       IN (Replans(k) /\ Len(path) > 0) =>
             /\ \E i \in DOMAIN food :
                   /\ food[i].Pos = path[Len(path)]
                   /\ FirstNearest(food, i, s.Body[1])
             /\ Adjacent(s.Body[1], path[1])
             /\ Range(path) \cap Blocked(Events[k].pre, s) = {}
             /\ Events[k].snake.NextDir = directionFromTo(s.Body[1], path[1])

(* C32, its case: a replan with two food items equally near, the target     *)
(* the first of them, and a path that goes round a blocked cell: longer     *)
(* than the distance to the target.                                         *)
C32_Witness ==
    \E k \in AiEvents :
       LET s == Decider(k)
           path == Events[k].snake.currentPath
           food == Events[k].pre.FoodItems
       IN /\ Replans(k)
          /\ Len(path) > 0
          /\ Len(path) > heuristic(s.Body[1], path[Len(path)])
          /\ \E i \in DOMAIN food : \E j \in DOMAIN food :
                /\ i < j
                /\ food[i].Pos = path[Len(path)]
                /\ heuristic(s.Body[1], food[j].Pos)
                      = heuristic(s.Body[1], food[i].Pos)

(* The decision of event k replans and has nothing to plan with: there is   *)
(* no food, or the search finds no path to the nearest item.                *)
NoPlan(k) ==
    LET s == Decider(k)
        food == Events[k].pre.FoodItems
    IN /\ Replans(k)
       /\ \A i \in DOMAIN food :
             FirstNearest(food, i, s.Body[1])
               => Len(findPath(s.Body[1], food[i].Pos, GridWidth, GridHeight,
                               Blocked(Events[k].pre, s)).path) = 0

(* C33: a decision that falls back to the random choice leaves NextDir one  *)
(* of the directions that are not the reverse of Direction and lead to a    *)
(* cell of the grid outside the obstacle set, or, when there is no such     *)
(* direction, equal to Direction; the cached path is empty.                 *)
C33_SafeRandomDirection ==
    \A k \in AiEvents :
       NoPlan(k) => RandomChoice(Events[k].pre, Decider(k), Events[k].snake)

(* C33, its case: the random choice turned an enemy when the cell ahead     *)
(* of it was blocked or outside the grid.                                   *)
C33_Witness ==
    \E k \in AiEvents :
       /\ NoPlan(k)
       /\ Decider(k).Direction \notin SafeDirs(Events[k].pre, Decider(k))
       /\ Events[k].snake.NextDir # Decider(k).Direction

---------------------------------------------------------------------------
(* Properties of the timed food spawn. *)

FoodSpawnKinds == {"spawnFood", "spawnFoodFailed", "spawnFoodAtCap"}

FoodSpawns == {k \in DOMAIN Events : Events[k].kind \in FoodSpawnKinds}

(* The spawn attempt of event k is the replacement attempt of a step that   *)
(* eats: the record of the step follows it.                                 *)
ReplacementSpawn(k) ==
    /\ k \in FoodSpawns
    /\ k + 1 \in Steps
    /\ AteIndex(k + 1) # 0

TimedFoodSpawns == {k \in FoodSpawns : ~ReplacementSpawn(k)}

(* The timed food spawn of this Update call was due. *)
FoodSpawnDue ==
    /\ InUpdate
    /\ ~IsPaused
    /\ ~log.start.IsOver
    /\ now > log.start.nextFoodSpawnTime

(* C34: an Update call made after nextFoodSpawnTime makes one timed spawn   *)
(* attempt, before anything else, which adds at most one item, and leaves   *)
(* nextFoodSpawnTime at the current time plus FoodSpawnInterval, placed or  *)
(* not; a call made earlier makes no timed attempt and leaves the schedule  *)
(* alone, and so does every step, replacement spawn included.               *)
C34_TimedFoodSpawn ==
    InUpdate =>
      /\ TimedFoodSpawns = IF FoodSpawnDue THEN {1} ELSE {}
      /\ \A k \in FoodSpawns :
            /\ IsPrefix(Events[k].pre.FoodItems, Events[k].post.FoodItems)
            /\ Len(Events[k].post.FoodItems) <= Len(Events[k].pre.FoodItems) + 1
      /\ log.end.nextFoodSpawnTime =
            IF FoodSpawnDue THEN now + FoodSpawnInterval
            ELSE log.start.nextFoodSpawnTime
      /\ \A k \in Steps :
            Events[k].post.nextFoodSpawnTime = Events[k].pre.nextFoodSpawnTime

(* C34, its case: the timed attempt of a call placed nothing, and a step    *)
(* of the same call ate an item and placed its replacement.                 *)
C34_Witness ==
    /\ FoodSpawnDue
    /\ Events[1].kind \in {"spawnFoodFailed", "spawnFoodAtCap"}
    /\ \E k \in FoodSpawns : ReplacementSpawn(k) /\ Events[k].kind = "spawnFood"

---------------------------------------------------------------------------
(* Properties of the speed of the enemies. *)

---------------------------------------------------------------------------
(* Properties of the directions of travel. *)

TravelDirections == {DirUp, DirDown, DirLeft, DirRight}

(* C36: whatever calls were made, HandleInput with any Direction value      *)
(* included, the Direction and the NextDir of the player and of every       *)
(* enemy are Up, Down, Left or Right, never None, and every finalized step  *)
(* moves the head to a cell next to the one it was on.                      *)
C36_NoTravelInNone ==
    /\ \A s \in SnakesOf(Game) :
          s.Direction \in TravelDirections /\ s.NextDir \in TravelDirections
    /\ \A k \in Steps : Adjacent(Mover(k).Body[1], Events[k].snake.Body[1])

---------------------------------------------------------------------------
(* Properties of the snapshot. *)

(* C37: a GetState call changes no field of the session, and what a caller  *)
(* writes to the collections of the snapshot it was given (the food list,   *)
(* the enemy list, the bodies of the snakes) changes no field of the        *)
(* session either.                                                          *)
C37_SnapshotIsolated ==
    [][ (log'.call \in {"GetState", "CallerWrite"}) => UNCHANGED session ]_vars

(* C38: the direction a finalized step commits is never the opposite of     *)
(* the direction the snake had from its previous step (for a snake that     *)
(* has not stepped yet: from its creation), whatever HandleInput calls and  *)
(* AI decisions came between, and the step does not move the head onto the  *)
(* cell of the neck.                                                        *)
C38_NoReversal ==
    \A k \in Steps :
       /\ ~IsReverse(Events[k].snake.Direction, Mover(k).Direction)
       /\ Len(Mover(k).Body) > 1 => Events[k].snake.Body[1] # Mover(k).Body[2]

(* C38, its case: the cached path of an enemy led back onto its neck, the   *)
(* decision replanned, and the enemy then made a step.                      *)
C38_Witness ==
    \E a \in AiEvents :
       /\ HasCachedPath(a)
       /\ TowardNeck(Decider(a))
       /\ a + 1 \in EnemySteps
       /\ Events[a + 1].id = Events[a].id
       /\ Events[a + 1].snake.Direction # Mover(a + 1).Direction

---------------------------------------------------------------------------
(* Properties of the grid when a call returns. *)

(* Reset or Update has returned and the game is not over. *)
ReturnedRunning ==
    /\ log.call \in {"Reset", "Update"}
    /\ ~crashed
    /\ ~IsOver

(* No two segments of body lie on the same cell. *)
NoCellTwice(body) ==
    \A i \in DOMAIN body : \A j \in DOMAIN body : i # j => body[i] # body[j]

(* C39: when Reset or Update returns and the game is not over, every        *)
(* segment of the player and of every enemy of the collection is in         *)
(* bounds, no snake has two segments on one cell, and no cell holds         *)
(* segments of two snakes.                                                  *)
C39_SnakesOccupyGridConsistently ==
    ReturnedRunning =>
       /\ \A s \in SnakesOf(Game) : InBounds(s.Body) /\ NoCellTwice(s.Body)
       /\ \A s \in SnakesOf(Game) : \A t \in SnakesOf(Game) :
             s.id # t.id => Range(s.Body) \cap Range(t.Body) = {}

(* C39, its case: an Update call returned with the game running in which    *)
(* a snake ate, an enemy was spawned and a step of an enemy was fatal.      *)
C39_Witness ==
    /\ ReturnedRunning
    /\ InUpdate
    /\ \E k \in Steps : AteIndex(k) # 0
    /\ \E k \in DOMAIN Events : Events[k].kind = "spawnEnemy"
    /\ \E k \in EnemySteps : Fatal(k) /\ Collided(k)

(* C40: when Reset or Update returns and the game is not over, every food   *)
(* item is in bounds, no two items lie on one cell and no item lies on a    *)
(* cell of the player or of an enemy, whatever the call spawned: initial    *)
(* and timed items, replacements of eaten items, enemies.                   *)
C40_FoodOnFreeCells ==
    ReturnedRunning =>
       /\ \A i \in DOMAIN FoodItems :
             /\ isValid(FoodItems[i].Pos, GridWidth, GridHeight)
             /\ \A j \in DOMAIN FoodItems :
                   i # j => FoodItems[i].Pos # FoodItems[j].Pos
       /\ FoodCells(Game) \cap SnakeCells(Game) = {}

(* C40, its case: an Update call returned with the game running in which    *)
(* the timed check spawned an enemy and a step ate an item and placed its   *)
(* replacement, which is still in the list.                                 *)
C40_Witness ==
    /\ ReturnedRunning
    /\ InUpdate
    /\ \E k \in DOMAIN Events : Events[k].kind = "spawnEnemy"
    /\ \E k \in FoodSpawns :
          /\ ReplacementSpawn(k)
          /\ Events[k].kind = "spawnFood"
          /\ Last(Events[k].post.FoodItems) \in Range(FoodItems)

===========================================================================
